---- MODULE Spec2Model ----
(***************************************************************************)
(* Model of the data-ingestion service: the store writer (db/client.py),   *)
(* the three fetch orchestrators (ingestion/*_fetcher.py) and the          *)
(* scheduler entry point (ingestion/scheduler.py).                         *)
(*                                                                         *)
(* Strings that the code takes apart (ticker symbols, TRACKED_SYMBOLS) are *)
(* sequences of one-character strings.  Floats are integers; the float NaN *)
(* is the value NaN.                                                       *)
(***************************************************************************)
EXTENDS Integers, Sequences, FiniteSets, TLC

VARIABLES
    env,        \* the process environment: DATABASE_URL, FINNHUB_API_KEY, TRACKED_SYMBOLS
    entry,      \* the module the process runs: its __main__ block
    prices,     \* committed rows of table prices
    news,       \* committed rows of table news
    insider,    \* committed rows of table insider_transactions
    last,       \* the latest completed call: its arguments and its outcome
    tx,         \* the writer's open transaction, statement by statement
    seen,       \* what the latest reader query returned
    main,       \* where scheduler.main() stands
    started,    \* whether the BackgroundScheduler is running
    jobs,       \* per ingestion job: its running instances and what its runs produced
    provider,   \* the providers' side: the day it is and whether their requests succeed
    flight      \* a fetcher run step by step: its symbols and its requests in flight

session == <<tx, seen, flight>>
process == <<main, started, jobs>>
vars ==
    <<env, entry, prices, news, insider, last, tx, seen, main, started, jobs,
      provider, flight>>

-----------------------------------------------------------------------------
(* Bounds and sample data *)

MaxTs == 2
Timestamps == 1..MaxTs

\* The revisions of a bar the provider publishes (a revised bar keeps its key).
Versions == {1, 2}

AAPL == <<"A", "A", "P", "L">>
MSFT == <<"M", "S", "F", "T">>
Symbols == {AAPL, MSFT}

NaN == 0 - 1
\* Python None and SQL NULL, where a string and where a number is expected.
NULL == "NULL"
NoNumber == 0 - 2

\* The five OHLCV concepts, by the canonical (lower-case) column name.
Fields == {"open", "high", "low", "close", "volume"}
ColNo(f) ==
    CASE f = "open" -> 1 [] f = "high" -> 2 [] f = "low" -> 3
      [] f = "close" -> 4 [] f = "volume" -> 5

\* A series with a gap: the ticker has no bar at the first timestamp of the
\* shared index (the cells are NaN there) and revision 1 of the later bars.
Gappy == 0 - 4

\* The value the provider publishes for field f of the bar at t, in revision ver;
\* it differs by field, by timestamp and by revision.
Val(f, ver, t) ==
    IF ver = NaN \/ (ver = Gappy /\ t = 1) THEN NaN
    ELSE IF ver = Gappy THEN 100 * t + 10 + ColNo(f)
    ELSE 100 * t + 10 * ver + ColNo(f)

\* str.lower() on the column names the code handles.
Lower(c) ==
    CASE c = "Open" -> "open" [] c = "High" -> "high" [] c = "Low" -> "low"
      [] c = "Close" -> "close" [] c = "Volume" -> "volume"
      [] c = "OPEN" -> "open" [] c = "HIGH" -> "high" [] c = "LOW" -> "low"
      [] c = "CLOSE" -> "close" [] c = "VOLUME" -> "volume" [] OTHER -> c

Capital(f) ==
    CASE f = "open" -> "Open" [] f = "high" -> "High" [] f = "low" -> "Low"
      [] f = "close" -> "Close" [] f = "volume" -> "Volume"

\* A DataFrame with flat columns: index (timestamps), column labels, cells.
FlatFrame(index, names, ver) ==
    [index |-> index, cols |-> names,
     cell |-> [c \in names |-> [t \in index |-> Val(Lower(c), ver, t)]]]

AllCaps(f) ==
    CASE f = "open" -> "OPEN" [] f = "high" -> "HIGH" [] f = "low" -> "LOW"
      [] f = "close" -> "CLOSE" [] f = "volume" -> "VOLUME"

LowerNames == Fields
CapitalNames == {Capital(f) : f \in Fields}
UpperNames == {AllCaps(f) : f \in Fields}

\* Contiguous, possibly empty ranges of timestamps: the windows a fetch covers.
Windows == {a..b : a \in Timestamps, b \in Timestamps} \cup {{}}

\* The frames handed to store_prices directly, each named by its shape: the
\* index, the spelling of the column names and the revision of the values.
FrameShapes ==
    {[index |-> ix, names |-> LowerNames, ver |-> v] :
        ix \in Windows, v \in Versions}
    \cup {[index |-> Timestamps, names |-> CapitalNames, ver |-> 1],
          [index |-> Timestamps, names |-> LowerNames, ver |-> NaN]}

FrameOf(shape) == FlatFrame(shape.index, shape.names, shape.ver)

-----------------------------------------------------------------------------
(* db/client.py: store_prices *)

\* float(x): NaN stays NaN.
ToFloat(x) == x

\* int(x) raises ValueError on NaN.
IntRaises(x) == x = NaN
ToInt(x) == x

\* row.get(key, default) on a row of frame df at timestamp t.
RowGet(df, t, key, default) ==
    IF key \in df.cols THEN df.cell[key][t] ELSE default

\* The record store_prices builds for the row at t.
PriceRecord(symbol, df, t) ==
    [timestamp |-> t,
     symbol |-> symbol,
     open |-> ToFloat(RowGet(df, t, "open", RowGet(df, t, "Open", 0))),
     high |-> ToFloat(RowGet(df, t, "high", RowGet(df, t, "High", 0))),
     low |-> ToFloat(RowGet(df, t, "low", RowGet(df, t, "Low", 0))),
     close |-> ToFloat(RowGet(df, t, "close", RowGet(df, t, "Close", 0))),
     volume |-> ToInt(RowGet(df, t, "volume", RowGet(df, t, "Volume", 0)))]

PriceRecordRaises(df, t) ==
    IntRaises(RowGet(df, t, "volume", RowGet(df, t, "Volume", 0)))

\* df.empty: no rows or no columns.
FrameEmpty(df) == df.index = {} \/ df.cols = {}

\* A plain INSERT that ignores the unique index.
UpsertPriceNoConflict(table, rec) == table \cup {rec}

\* ON CONFLICT (timestamp, symbol) DO NOTHING in place of DO UPDATE.
UpsertPriceKeepOld(table, rec) ==
    IF \E r \in table : r.timestamp = rec.timestamp /\ r.symbol = rec.symbol
    THEN table
    ELSE table \cup {rec}

\* A conflicting row deleted in place of updated.
UpsertPriceDeleteOld(table, rec) ==
    IF \E r \in table : r.timestamp = rec.timestamp /\ r.symbol = rec.symbol
    THEN {r \in table : ~(r.timestamp = rec.timestamp /\ r.symbol = rec.symbol)}
    ELSE table \cup {rec}

\* INSERT ... ON CONFLICT (timestamp, symbol) DO UPDATE SET open = EXCLUDED.open, ...
UpsertPrice(table, rec) ==
    {r \in table : ~(r.timestamp = rec.timestamp /\ r.symbol = rec.symbol)}
        \cup {rec}

\* The timestamps of a frame in iteration order (the index is kept ascending).
RECURSIVE SetToSeq(_)
SetToSeq(S) ==
    IF S = {} THEN <<>>
    ELSE LET m == CHOOSE x \in S : \A y \in S : x <= y
         IN <<m>> \o SetToSeq(S \ {m})

RECURSIVE ExecutePrices(_, _)
ExecutePrices(table, records) ==
    IF records = <<>> THEN table
    ELSE ExecutePrices(UpsertPrice(table, Head(records)), Tail(records))

\* records = [...] for timestamp, row in df.iterrows()
PriceRecords(symbol, df) ==
    LET ts == SetToSeq(df.index)
    IN [i \in 1..Len(ts) |-> PriceRecord(symbol, df, ts[i])]

\* store_prices(engine, symbol, df) against table, with dbFail telling whether
\* the database fails inside the transaction.  The result: the table afterwards,
\* whether the call raised, and the count returned.
StorePrices(table, symbol, df, dbFail) ==
    IF FrameEmpty(df) THEN [table |-> table, raised |-> FALSE, count |-> 0]
    ELSE IF \E t \in df.index : PriceRecordRaises(df, t)
    THEN [table |-> table, raised |-> TRUE, count |-> 0]
    ELSE LET records == PriceRecords(symbol, df)
         IN IF dbFail
            THEN [table |-> table, raised |-> TRUE, count |-> 0]
            ELSE [table |-> ExecutePrices(table, records), raised |-> FALSE,
                  count |-> Len(records)]

-----------------------------------------------------------------------------
(* db/client.py: store_news and store_insider *)

\* dict.get(key, default)
Get(d, key, default) == IF key \in DOMAIN d THEN d[key] ELSE default

\* pd.to_datetime(x): an epoch number x becomes the instant x units after the
\* epoch, written here by that number; None becomes NaT.
NaT == 0 - 1
ToDatetime(x) == IF x = NoNumber THEN NaT ELSE x

\* The instants of the provider's news items and insider transactions, the
\* revisions of a news item's summary, and the one headline per instant.
NewsTimes == {1, 2}
NewsWindows == {a..b : a \in NewsTimes, b \in NewsTimes} \cup {{}}
Summaries == {"s1", "s2"}
Headline == "h"

\* A company-news item as the provider returns it.
NewsItem(t, summary) ==
    [datetime |-> t, headline |-> Headline, summary |-> summary,
     source |-> "Reuters", url |-> "u"]

\* The item lists a fetch returns: the items of a window of instants, all in
\* one revision, or one instant repeated in two revisions.
RECURSIVE SeqOver(_, _)
SeqOver(ts, summary) ==
    IF ts = <<>> THEN <<>>
    ELSE <<NewsItem(Head(ts), summary)>> \o SeqOver(Tail(ts), summary)

\* The item of instant t as another outlet carries it: the same headline
\* under another source and url.
RepublishedItem(t) ==
    [datetime |-> t, headline |-> Headline, summary |-> "s2",
     source |-> "Yahoo", url |-> "v"]

NewsBatches ==
    {SeqOver(SetToSeq(w), s) : w \in NewsWindows, s \in Summaries}
    \cup {<<NewsItem(1, "s1"), NewsItem(1, "s2")>>}
    \cup {<<RepublishedItem(1)>>}

\* A payload element that is no JSON object (a string, a number): it has no
\* get, so building its record raises AttributeError.
NotADict == [notdict |-> TRUE]
IsDict(x) == "notdict" \notin DOMAIN x

\* The record store_news builds for one item.
NewsRecord(symbol, item) ==
    [symbol |-> symbol,
     timestamp |-> ToDatetime(Get(item, "datetime", Get(item, "timestamp", NoNumber))),
     headline |-> Get(item, "headline", Get(item, "title", "")),
     summary |-> Get(item, "summary", Get(item, "description", NULL)),
     source |-> Get(item, "source", "finnhub"),
     url |-> Get(item, "url", NULL)]

\* The natural key of table news that ON CONFLICT DO NOTHING arbitrates on.
NewsKey(r) == <<r.symbol, r.timestamp, r.headline>>

\* The id a serial column gives a new row: one no stored row has.
RECURSIVE MaxId(_)
MaxId(table) ==
    IF table = {} THEN 0
    ELSE LET r == CHOOSE x \in table : TRUE
             m == MaxId(table \ {r})
         IN IF r.id > m THEN r.id ELSE m

NextId(table) == MaxId(table) + 1

WithId(rec, id) ==
    [k \in DOMAIN rec \cup {"id"} |-> IF k = "id" THEN id ELSE rec[k]]

\* An INSERT that no unique index arbitrates: every record becomes a row.
InsertNewsAlways(table, rec) ==
    [table |-> table \cup {WithId(rec, NextId(table))}, rowcount |-> 1]

\* An INSERT that overwrites on conflict: the stored row keeps its id and
\* takes the fields of the record.
InsertNewsOverwrite(table, rec) ==
    IF \E r \in table : NewsKey(r) = NewsKey(rec)
    THEN [table |-> {IF NewsKey(r) = NewsKey(rec) THEN WithId(rec, r.id) ELSE r :
                        r \in table},
          rowcount |-> 1]
    ELSE [table |-> table \cup {WithId(rec, NextId(table))}, rowcount |-> 1]

\* INSERT INTO news ... ON CONFLICT DO NOTHING, for one record: the table
\* afterwards and the number of rows the statement affected.
InsertNews(table, rec) ==
    IF \E r \in table : NewsKey(r) = NewsKey(rec)
    THEN [table |-> table, rowcount |-> 0]
    ELSE [table |-> table \cup {WithId(rec, NextId(table))}, rowcount |-> 1]

RECURSIVE ExecuteNews(_, _, _)
ExecuteNews(table, records, n) ==
    IF records = <<>> THEN [table |-> table, rowcount |-> n]
    ELSE LET r == InsertNews(table, Head(records))
         IN ExecuteNews(r.table, Tail(records), n + r.rowcount)

NewsRecords(symbol, news_items) ==
    [i \in 1..Len(news_items) |-> NewsRecord(symbol, news_items[i])]

\* store_news(engine, symbol, news_items) against table.
StoreNews(table, symbol, news_items, dbFail) ==
    IF news_items = <<>> THEN [table |-> table, raised |-> FALSE, count |-> 0]
    ELSE LET records == NewsRecords(symbol, news_items)
         IN IF dbFail \/ \E i \in 1..Len(news_items) : ~IsDict(news_items[i])
            THEN [table |-> table, raised |-> TRUE, count |-> 0]
            ELSE LET r == ExecuteNews(table, records, 0)
                 IN [table |-> r.table, raised |-> FALSE, count |-> r.rowcount]

\* An insider transaction as the provider returns it.
InsiderTxn(t, shares) ==
    [transactionDate |-> t, transactionType |-> "S", shares |-> shares,
     price |-> 7, value |-> 7 * shares, name |-> "Cook"]

RECURSIVE TxnsOver(_, _)
TxnsOver(ts, shares) ==
    IF ts = <<>> THEN <<>>
    ELSE <<InsiderTxn(Head(ts), shares)>> \o TxnsOver(Tail(ts), shares)

ShareCounts == {10, 20}

\* A transaction the provider returns without a name: store_insider reads
\* its insider_name as None.
NamelessTxn(t, shares) ==
    [transactionDate |-> t, transactionType |-> "S", shares |-> shares,
     price |-> 7, value |-> 7 * shares]

InsiderBatches ==
    {TxnsOver(SetToSeq(w), n) : w \in NewsWindows, n \in ShareCounts}
    \cup {<<InsiderTxn(1, 10), InsiderTxn(1, 20)>>}
    \cup {<<NamelessTxn(1, n)>> : n \in ShareCounts}

\* pd.to_datetime(x).date(): the day of the instant.
ToDate(x) == ToDatetime(x)

\* float(txn.get(k, 0)) if txn.get(k) else None
OptionalFloat(txn, k) ==
    IF Get(txn, k, NoNumber) \in {NoNumber, 0}
    THEN NoNumber
    ELSE ToFloat(Get(txn, k, 0))

\* The record store_insider builds for one transaction.
InsiderRecord(symbol, txn) ==
    [symbol |-> symbol,
     transaction_date |->
        ToDate(Get(txn, "transactionDate", Get(txn, "date", NoNumber))),
     transaction_type |-> Get(txn, "transactionType", Get(txn, "type", "")),
     shares |-> ToFloat(Get(txn, "shares", 0)),
     price |-> OptionalFloat(txn, "price"),
     value |-> OptionalFloat(txn, "value"),
     insider_name |-> Get(txn, "name", Get(txn, "insiderName", NULL)),
     source |-> "finnhub"]

\* The natural key of table insider_transactions; a NULL insider_name never
\* conflicts, as NULLs are distinct in a unique index.
InsiderKey(r) ==
    <<r.symbol, r.transaction_date, r.transaction_type, r.insider_name>>
InsiderConflict(r, rec) ==
    InsiderKey(r) = InsiderKey(rec) /\ rec.insider_name # NULL

\* An INSERT that no unique index arbitrates: every record becomes a row.
InsertInsiderAlways(table, rec) ==
    [table |-> table \cup {WithId(rec, NextId(table))}, rowcount |-> 1]

\* INSERT INTO insider_transactions ... ON CONFLICT DO NOTHING, for one record.
InsertInsider(table, rec) ==
    IF \E r \in table : InsiderConflict(r, rec)
    THEN [table |-> table, rowcount |-> 0]
    ELSE [table |-> table \cup {WithId(rec, NextId(table))}, rowcount |-> 1]

RECURSIVE ExecuteInsider(_, _, _)
ExecuteInsider(table, records, n) ==
    IF records = <<>> THEN [table |-> table, rowcount |-> n]
    ELSE LET r == InsertInsider(table, Head(records))
         IN ExecuteInsider(r.table, Tail(records), n + r.rowcount)

InsiderRecords(symbol, transactions) ==
    [i \in 1..Len(transactions) |-> InsiderRecord(symbol, transactions[i])]

\* store_insider(engine, symbol, transactions) against table.
StoreInsider(table, symbol, transactions, dbFail) ==
    IF transactions = <<>> THEN [table |-> table, raised |-> FALSE, count |-> 0]
    ELSE LET records == InsiderRecords(symbol, transactions)
         IN IF dbFail \/ \E i \in 1..Len(transactions) : ~IsDict(transactions[i])
            THEN [table |-> table, raised |-> TRUE, count |-> 0]
            ELSE LET r == ExecuteInsider(table, records, 0)
                 IN [table |-> r.table, raised |-> FALSE, count |-> r.rowcount]

-----------------------------------------------------------------------------
(* db/client.py: fetch_prices, fetch_news, fetch_insider *)

\* ORDER BY key ASC over a set of rows (rows with equal keys in any order).
RECURSIVE OrderAsc(_, _)
OrderAsc(rows, col) ==
    IF rows = {} THEN <<>>
    ELSE LET r == CHOOSE x \in rows : \A y \in rows : x[col] <= y[col]
         IN <<r>> \o OrderAsc(rows \ {r}, col)

\* ORDER BY key DESC
RECURSIVE OrderDesc(_, _)
OrderDesc(rows, col) ==
    IF rows = {} THEN <<>>
    ELSE LET r == CHOOSE x \in rows : \A y \in rows : x[col] >= y[col]
         IN <<r>> \o OrderDesc(rows \ {r}, col)

\* LIMIT n
Limit(seq, n) == IF Len(seq) <= n THEN seq ELSE SubSeq(seq, 1, n)

\* fetch_prices(engine, symbol, start_date, end_date); a bound of None is NoNumber.
FetchPrices(table, symbol, start_date, end_date) ==
    OrderAsc({r \in table :
                /\ r.symbol = symbol
                /\ start_date # NoNumber => r.timestamp >= start_date
                /\ end_date # NoNumber => r.timestamp <= end_date},
             "timestamp")

\* fetch_news(engine, symbol, limit)
FetchNews(table, symbol, limit) ==
    Limit(OrderDesc({r \in table : r.symbol = symbol}, "timestamp"), limit)

\* fetch_insider(engine, symbol, limit)
FetchInsider(table, symbol, limit) ==
    Limit(OrderDesc({r \in table : r.symbol = symbol}, "transaction_date"), limit)

DefaultLimit == 50

-----------------------------------------------------------------------------
(* db/client.py: get_db_url, create_db_engine *)

\* get_db_url raises ValueError when DATABASE_URL is unset or empty;
\* create_db_engine builds a lazy engine and raises only through get_db_url.
CreateDbEngineRaises(e) == ~e.DATABASE_URL

-----------------------------------------------------------------------------
(* ingestion/price_fetcher.py: fetch_and_store_prices *)

EmptyMap == [x \in {} |-> 0]
Put(m, k, v) == [x \in DOMAIN m \cup {k} |-> IF x = k THEN v ELSE m[x]]

RECURSIVE Range(_)
Range(seq) == IF seq = <<>> THEN {} ELSE {Head(seq)} \cup Range(Tail(seq))

\* What the provider holds for one symbol of a download: a revision of its
\* bars, bars of NaN (no data for a listed ticker), bars after a gap, or no
\* columns at all.
Absent == 0 - 3
Statuses == Versions \cup {NaN, Gappy, Absent}

\* The rows of a response: the bars of the period asked for, none when no
\* ticker has any.
ResponseIndex(dl) ==
    IF \A x \in DOMAIN dl.st : dl.st[x] = Absent THEN {} ELSE dl.index

\* yf.download for one ticker: flat columns Open, High, Low, Close, Volume,
\* and the rows of the ticker's own bars (a gap has no row).
SingleResponse(dl, symbol) ==
    FlatFrame(IF dl.st[symbol] = Gappy THEN ResponseIndex(dl) \ {1}
              ELSE ResponseIndex(dl),
              IF dl.st[symbol] = Absent THEN {} ELSE dl.names,
              dl.st[symbol])

\* yf.download for several tickers with group_by="column": columns
\* (Open, SPY), (High, SPY), ... for every ticker the response covers.
BulkResponse(dl) ==
    LET cols == {<<c, s>> : c \in dl.names,
                            s \in {x \in DOMAIN dl.st : dl.st[x] # Absent}}
    IN [index |-> ResponseIndex(dl), cols |-> cols,
        cell |-> [k \in cols |->
                    [t \in ResponseIndex(dl) |->
                        Val(Lower(k[1]), dl.st[k[2]], t)]]]

\* The response of a download described by dl = [raises, st, index, names]:
\* st is what the provider holds for each requested symbol, index the bars of
\* the period, names the spelling of the five column names.
Download(symbols, dl) ==
    IF Len(symbols) = 1
    THEN SingleResponse(dl, symbols[1])
    ELSE BulkResponse(dl)

\* df.columns = [c.lower() if isinstance(c, str) else c for c in df.columns]
LowerColumns(data) ==
    LET names == {Lower(c) : c \in data.cols}
    IN [index |-> data.index, cols |-> names,
        cell |-> [n \in names |->
                    data.cell[CHOOSE c \in data.cols : Lower(c) = n]]]

\* The projection that reads one ticker's columns whatever the symbol asked for.
ExtractAnySymbol(data, symbol) ==
    LET names == {Lower(c) : c \in {c \in CapitalNames : <<c, symbol>> \in data.cols}}
        other == CHOOSE x \in {k[2] : k \in data.cols} : TRUE
    IN [index |-> data.index, cols |-> names,
        cell |-> [n \in names |-> data.cell[<<Capital(n), other>>]]]

\* df = pd.DataFrame(index=data.index); for col in [...]:
\*     if (col, symbol) in data.columns: df[col.lower()] = data[(col, symbol)]
ExtractSymbol(data, symbol) ==
    LET names == {Lower(c) : c \in {c \in CapitalNames : <<c, symbol>> \in data.cols}}
    IN [index |-> data.index, cols |-> names,
        cell |-> [n \in names |-> data.cell[<<Capital(n), symbol>>]]]

\* The loop without its inner try: the first failure leaves the loop.
RECURSIVE StoreEachSymbolNoTry(_, _, _, _, _)
StoreEachSymbolNoTry(table, data, symbols, failing, results) ==
    IF symbols = <<>> THEN [table |-> table, results |-> results]
    ELSE LET symbol == Head(symbols)
             df == ExtractSymbol(data, symbol)
         IN IF FrameEmpty(df)
            THEN StoreEachSymbolNoTry(table, data, Tail(symbols), failing, results)
            ELSE LET r == StorePrices(table, symbol, df, symbol \in failing)
                 IN IF r.raised
                    THEN [table |-> table, results |-> results]
                    ELSE StoreEachSymbolNoTry(r.table, data, Tail(symbols), failing,
                                              Put(results, symbol, r.count))

\* for symbol in symbols: try: ... except Exception: results[symbol] = 0
RECURSIVE StoreEachSymbol(_, _, _, _, _)
StoreEachSymbol(table, data, symbols, failing, results) ==
    IF symbols = <<>> THEN [table |-> table, results |-> results]
    ELSE LET symbol == Head(symbols)
             df == ExtractSymbol(data, symbol)
         IN IF FrameEmpty(df)
            THEN StoreEachSymbol(table, data, Tail(symbols), failing, results)
            ELSE LET r == StorePrices(table, symbol, df, symbol \in failing)
                 IN IF r.raised
                    THEN StoreEachSymbol(table, data, Tail(symbols), failing,
                                         Put(results, symbol, 0))
                    ELSE StoreEachSymbol(r.table, data, Tail(symbols), failing,
                                         Put(results, symbol, r.count))

\* fetch_and_store_prices(symbols) in environment e, against table: dl is the
\* outcome of yf.download, failing the symbols whose transaction the database
\* fails.  The result: the table afterwards, whether the call raised, and the
\* map returned.
FetchAndStorePrices(table, e, symbols, dl, failing) ==
    IF symbols = <<>>
    THEN [table |-> table, raised |-> FALSE, results |-> EmptyMap]
    ELSE IF CreateDbEngineRaises(e)
    THEN [table |-> table, raised |-> TRUE, results |-> EmptyMap]
    ELSE IF dl.raises
    THEN [table |-> table, raised |-> FALSE, results |-> EmptyMap]
    ELSE LET data == Download(symbols, dl)
         IN IF FrameEmpty(data)
            THEN [table |-> table, raised |-> FALSE, results |-> EmptyMap]
            ELSE IF Len(symbols) = 1
            THEN LET symbol == symbols[1]
                     r == StorePrices(table, symbol, LowerColumns(data),
                                      symbol \in failing)
                 IN IF r.raised
                    THEN [table |-> table, raised |-> FALSE, results |-> EmptyMap]
                    ELSE [table |-> r.table, raised |-> FALSE,
                          results |-> Put(EmptyMap, symbol, r.count)]
            ELSE LET r == StoreEachSymbol(table, data, symbols, failing, EmptyMap)
                 IN [table |-> r.table, raised |-> FALSE, results |-> r.results]

-----------------------------------------------------------------------------
(* ingestion/news_fetcher.py, ingestion/insider_fetcher.py *)

\* get_finnhub_key raises ValueError when FINNHUB_API_KEY is unset or empty.
GetFinnhubKeyRaises(e) == ~e.FINNHUB_API_KEY

\* What a Finnhub request ends in: a JSON payload of the expected shape
\* ("ok", with its records), a JSON payload whose top level has another shape
\* ("shape"), one whose top level is as expected and whose elements are not
\* objects ("inner"), or an exception of requests.get, raise_for_status or
\* json(): an HTTP failure, a rate-limit status, a timeout ("error").
FullNews == SeqOver(SetToSeq(NewsTimes), "s1")
FullInsider == TxnsOver(SetToSeq(NewsTimes), 10)
NewsResponses ==
    {[kind |-> "ok", body |-> FullNews], [kind |-> "ok", body |-> <<>>],
     [kind |-> "shape", body |-> <<>>], [kind |-> "error", body |-> <<>>],
     [kind |-> "inner", body |-> <<NotADict>>]}
InsiderResponses ==
    {[kind |-> "ok", body |-> FullInsider], [kind |-> "ok", body |-> <<>>],
     [kind |-> "shape", body |-> <<>>], [kind |-> "error", body |-> <<>>],
     [kind |-> "inner", body |-> <<NotADict>>]}

\* The request and the shape test of a fetch with no try around them: an
\* exception of the request leaves the function.
FetchNoTry(e, resp) ==
    IF GetFinnhubKeyRaises(e) \/ resp.kind = "error"
    THEN [raised |-> TRUE, items |-> <<>>]
    ELSE IF resp.kind \in {"ok", "inner"}
    THEN [raised |-> FALSE, items |-> resp.body]
    ELSE [raised |-> FALSE, items |-> <<>>]

\* fetch_company_news(symbol): the key is read outside the try, the request
\* and the test of the top level (a list) inside it; the list is returned as
\* it came.
FetchCompanyNews(e, resp) ==
    IF GetFinnhubKeyRaises(e) THEN [raised |-> TRUE, items |-> <<>>]
    ELSE IF resp.kind \in {"ok", "inner"}
    THEN [raised |-> FALSE, items |-> resp.body]
    ELSE [raised |-> FALSE, items |-> <<>>]

\* fetch_insider_transactions(symbol): the same, the top level being an
\* object with a "data" member.
FetchInsiderTransactions(e, resp) ==
    IF GetFinnhubKeyRaises(e) THEN [raised |-> TRUE, items |-> <<>>]
    ELSE IF resp.kind \in {"ok", "inner"}
    THEN [raised |-> FALSE, items |-> resp.body]
    ELSE [raised |-> FALSE, items |-> <<>>]

\* The loop of fetch_and_store_news without its try: a failure ends the call.
RECURSIVE NewsLoopNoTry(_, _, _, _, _, _)
NewsLoopNoTry(table, e, symbols, resp, failing, results) ==
    IF symbols = <<>> THEN [table |-> table, raised |-> FALSE, results |-> results]
    ELSE LET symbol == Head(symbols)
             f == FetchCompanyNews(e, resp[symbol])
             r == StoreNews(table, symbol, f.items, symbol \in failing)
         IN IF f.raised \/ (f.items # <<>> /\ r.raised)
            THEN [table |-> table, raised |-> TRUE, results |-> results]
            ELSE NewsLoopNoTry(r.table, e, Tail(symbols), resp, failing,
                               Put(results, symbol, r.count))

\* for symbol in symbols: try: fetch; store if any; except: results[symbol] = 0
RECURSIVE NewsLoop(_, _, _, _, _, _)
NewsLoop(table, e, symbols, resp, failing, results) ==
    IF symbols = <<>> THEN [table |-> table, raised |-> FALSE, results |-> results]
    ELSE LET symbol == Head(symbols)
             f == FetchCompanyNews(e, resp[symbol])
         IN IF f.raised
            THEN NewsLoop(table, e, Tail(symbols), resp, failing,
                          Put(results, symbol, 0))
            ELSE IF f.items # <<>>
            THEN LET r == StoreNews(table, symbol, f.items, symbol \in failing)
                 IN IF r.raised
                    THEN NewsLoop(table, e, Tail(symbols), resp, failing,
                                  Put(results, symbol, 0))
                    ELSE NewsLoop(r.table, e, Tail(symbols), resp, failing,
                                  Put(results, symbol, r.count))
            ELSE NewsLoop(table, e, Tail(symbols), resp, failing,
                          Put(results, symbol, 0))

\* fetch_and_store_news(symbols)
FetchAndStoreNews(table, e, symbols, resp, failing) ==
    IF symbols = <<>>
    THEN [table |-> table, raised |-> FALSE, results |-> EmptyMap]
    ELSE IF CreateDbEngineRaises(e)
    THEN [table |-> table, raised |-> TRUE, results |-> EmptyMap]
    ELSE NewsLoop(table, e, symbols, resp, failing, EmptyMap)

RECURSIVE InsiderLoop(_, _, _, _, _, _)
InsiderLoop(table, e, symbols, resp, failing, results) ==
    IF symbols = <<>> THEN [table |-> table, raised |-> FALSE, results |-> results]
    ELSE LET symbol == Head(symbols)
             f == FetchInsiderTransactions(e, resp[symbol])
         IN IF f.raised
            THEN InsiderLoop(table, e, Tail(symbols), resp, failing,
                             Put(results, symbol, 0))
            ELSE IF f.items # <<>>
            THEN LET r == StoreInsider(table, symbol, f.items, symbol \in failing)
                 IN IF r.raised
                    THEN InsiderLoop(table, e, Tail(symbols), resp, failing,
                                     Put(results, symbol, 0))
                    ELSE InsiderLoop(r.table, e, Tail(symbols), resp, failing,
                                     Put(results, symbol, r.count))
            ELSE InsiderLoop(table, e, Tail(symbols), resp, failing,
                             Put(results, symbol, 0))

\* fetch_and_store_insider(symbols)
FetchAndStoreInsider(table, e, symbols, resp, failing) ==
    IF symbols = <<>>
    THEN [table |-> table, raised |-> FALSE, results |-> EmptyMap]
    ELSE IF CreateDbEngineRaises(e)
    THEN [table |-> table, raised |-> TRUE, results |-> EmptyMap]
    ELSE InsiderLoop(table, e, symbols, resp, failing, EmptyMap)

-----------------------------------------------------------------------------
(* Initial state and the direct store calls *)

NoCall == [op |-> "none"]
NoTx == [active |-> FALSE]
NothingSeen == [kind |-> "none"]

NoJobs == <<>>
NoFlight == [active |-> FALSE]
NoProvider == [now |-> 1, ok |-> TRUE, polled |-> FALSE]

\* An environment with every variable the code requires; TRACKED_SYMBOLS unset.
EnvOk == [DATABASE_URL |-> TRUE, FINNHUB_API_KEY |-> TRUE, TRACKED_SYMBOLS |-> <<>>]

Init ==
    /\ env = EnvOk
    /\ entry = "client"
    /\ prices = {}
    /\ news = {}
    /\ insider = {}
    /\ last = NoCall
    /\ tx = NoTx
    /\ seen = NothingSeen
    /\ flight = NoFlight
    /\ main = "none"
    /\ started = FALSE
    /\ provider = NoProvider
    /\ jobs = NoJobs

RowsOf(table, symbol) == {r \in table : r.symbol = symbol}

StorePricesCall ==
    \E symbol \in Symbols, shape \in FrameShapes, dbFail \in BOOLEAN :
        \E r \in {StorePrices(prices, symbol, FrameOf(shape), dbFail)} :
           /\ prices' = r.table
           /\ last' = [op |-> "store_prices", symbol |-> symbol, shape |-> shape,
                       dbFail |-> dbFail,
                       revised |-> {q \in RowsOf(prices, symbol) :
                                       /\ q.timestamp \in shape.index
                                       /\ q \notin r.table},
                       raised |-> r.raised, count |-> r.count]
           /\ UNCHANGED <<env, entry, provider, news, insider, session, process>>

SpecStorePrices == Init /\ [][StorePricesCall]_vars

StoreNewsCall ==
    \E symbol \in Symbols, items \in NewsBatches, dbFail \in BOOLEAN :
        \E r \in {StoreNews(news, symbol, items, dbFail)} :
           /\ news' = r.table
           /\ last' = [op |-> "store_news", symbol |-> symbol, items |-> items,
                       dbFail |-> dbFail, raised |-> r.raised, count |-> r.count]
           /\ UNCHANGED <<env, entry, provider, prices, insider, session, process>>

SpecStoreNews == Init /\ [][StoreNewsCall]_vars

\* The calls are followed while the table holds fewer than MaxInsiderRows
\* rows.
MaxInsiderRows == 3

StoreInsiderCall ==
    /\ Cardinality(insider) < MaxInsiderRows
    /\ \E symbol \in Symbols, items \in InsiderBatches, dbFail \in BOOLEAN :
        \E r \in {StoreInsider(insider, symbol, items, dbFail)} :
           /\ insider' = r.table
           /\ last' = [op |-> "store_insider", symbol |-> symbol,
                       items |-> items, dbFail |-> dbFail,
                       raised |-> r.raised, count |-> r.count]
           /\ UNCHANGED <<env, entry, provider, prices, news, session, process>>

SpecStoreInsider == Init /\ [][StoreInsiderCall]_vars

-----------------------------------------------------------------------------
(* Claims about store_news *)

\* C2: the news table never holds two rows with the same (symbol, timestamp,
\* headline), and a store_news call adds no row for an item whose key was
\* stored before the call.
C2_NewsDedup ==
    [][/\ \A r \in news', q \in news' : NewsKey(r) = NewsKey(q) => r = q
       /\ \A r \in news' \ news : \A q \in news : NewsKey(q) # NewsKey(r)]_vars

\* A call that returned although it carried an item whose key is stored under
\* an older row: the item was left out.
C2_Witness ==
    /\ last.op = "store_news"
    /\ ~last.raised
    /\ \E i \in 1..Len(last.items), r \in news :
          /\ NewsKey(r) = NewsKey(NewsRecord(last.symbol, last.items[i]))
          /\ r.summary # last.items[i].summary
    /\ last.count < Len(last.items)

\* C19: a store_news call leaves every stored row that an item of the call
\* matches on (symbol, timestamp, headline) with the id, summary, source and
\* url it had, whatever the item's summary, source and url are.
C19_RepeatLeavesRow ==
    [][last'.op = "store_news" =>
          \A r \in news : \A i \in 1..Len(last'.items) :
              NewsKey(NewsRecord(last'.symbol, last'.items[i])) = NewsKey(r) =>
                  \E q \in news' :
                      /\ NewsKey(q) = NewsKey(r)
                      /\ q.id = r.id
                      /\ q.summary = r.summary
                      /\ q.source = r.source
                      /\ q.url = r.url]_vars

\* A call that returned after carrying one item whose key is stored under a
\* row of another summary, source and url, and that inserted nothing.
C19_Witness ==
    /\ last.op = "store_news"
    /\ ~last.raised
    /\ Len(last.items) = 1
    /\ last.count = 0
    /\ \E r \in news :
          LET rec == NewsRecord(last.symbol, last.items[1])
          IN /\ NewsKey(r) = NewsKey(rec)
             /\ r.summary # rec.summary
             /\ r.source # rec.source
             /\ r.url # rec.url

-----------------------------------------------------------------------------
(* The fetcher modules run as a process: cycles of one orchestrator *)

Envs == [DATABASE_URL : BOOLEAN, FINNHUB_API_KEY : BOOLEAN, TRACKED_SYMBOLS : {<<>>}]

SymbolLists == {<<>>, <<AAPL>>, <<MSFT>>, <<AAPL, MSFT>>, <<MSFT, AAPL>>}

\* A download that raises hands back no frame: its statuses are never read.
Downloads(symbols) ==
    [raises : {FALSE}, st : [Range(symbols) -> Statuses], index : {Timestamps},
     names : {CapitalNames}]
        \cup [raises : {TRUE}, st : {[s \in Range(symbols) |-> Absent]},
              index : {Timestamps}, names : {CapitalNames}]

InitFetcher ==
    /\ env \in Envs
    /\ entry \in {"price_fetcher", "news_fetcher", "insider_fetcher"}
    /\ prices = {}
    /\ news = {}
    /\ insider = {}
    /\ last = NoCall
    /\ tx = NoTx
    /\ seen = NothingSeen
    /\ flight = NoFlight
    /\ main = "none"
    /\ started = FALSE
    /\ provider = NoProvider
    /\ jobs = NoJobs

PriceCycle ==
    /\ entry = "price_fetcher"
    /\ \E symbols \in SymbolLists :
        \E dl \in Downloads(symbols), failing \in SUBSET Range(symbols) :
          \E r \in {FetchAndStorePrices(prices, env, symbols, dl, failing)} :
            /\ prices' = r.table
            /\ last' = [op |-> "fetch_and_store_prices", symbols |-> symbols,
                        dl |-> dl, failing |-> failing,
                        raised |-> r.raised, results |-> r.results]
            /\ UNCHANGED <<env, entry, provider, news, insider, session, process>>

NewsCycle ==
    /\ entry = "news_fetcher"
    /\ \E symbols \in SymbolLists :
        \E resp \in [Range(symbols) -> NewsResponses],
           failing \in SUBSET Range(symbols) :
          \E r \in {FetchAndStoreNews(news, env, symbols, resp, failing)} :
            /\ news' = r.table
            /\ last' = [op |-> "fetch_and_store_news", symbols |-> symbols,
                        resp |-> resp, failing |-> failing,
                        raised |-> r.raised, results |-> r.results]
            /\ UNCHANGED <<env, entry, provider, prices, insider, session, process>>

InsiderCycle ==
    /\ entry = "insider_fetcher"
    /\ \E symbols \in SymbolLists :
        \E resp \in [Range(symbols) -> InsiderResponses],
           failing \in SUBSET Range(symbols) :
          \E r \in {FetchAndStoreInsider(insider, env, symbols, resp, failing)} :
            /\ insider' = r.table
            /\ last' = [op |-> "fetch_and_store_insider", symbols |-> symbols,
                        resp |-> resp, failing |-> failing,
                        raised |-> r.raised, results |-> r.results]
            /\ UNCHANGED <<env, entry, provider, prices, news, session, process>>

SpecFetcher == InitFetcher /\ [][PriceCycle \/ NewsCycle \/ InsiderCycle]_vars

-----------------------------------------------------------------------------
(* A store call statement by statement, with readers in between *)

Kinds == {"prices", "news", "insider"}

KindOf(e) ==
    CASE e \in {"price_fetcher", "api_prices"} -> "prices"
      [] e \in {"news_fetcher", "api_news"} -> "news"
      [] e \in {"insider_fetcher", "api_insider"} -> "insider"

Table(kind) ==
    CASE kind = "prices" -> prices [] kind = "news" -> news
      [] kind = "insider" -> insider

\* The records a store call of the kind builds from its batch.
RecordsOf(kind, symbol, batch) ==
    CASE kind = "prices" -> PriceRecords(symbol, FrameOf(batch))
      [] kind = "news" -> NewsRecords(symbol, batch)
      [] kind = "insider" -> InsiderRecords(symbol, batch)

\* The batches stored statement by statement: two rows or more each.
TxBatches(kind) ==
    CASE kind = "prices" ->
            {[index |-> Timestamps, names |-> LowerNames, ver |-> v] :
                v \in Versions}
      [] kind = "news" -> {SeqOver(SetToSeq(NewsTimes), x) : x \in Summaries}
      [] kind = "insider" -> {TxnsOver(SetToSeq(NewsTimes), n) : n \in ShareCounts}

\* The empty input of a store call of the kind: a frame without rows, an
\* empty list.
EmptyBatch(kind) ==
    IF kind = "prices"
    THEN [index |-> {}, names |-> LowerNames, ver |-> 1]
    ELSE <<>>

StoreInputs(kind) == TxBatches(kind) \cup {EmptyBatch(kind)}

\* A store call that tests nothing before it opens its transaction.
NothingToStoreNever(kind, batch) == FALSE

\* if df.empty / if not news_items / if not transactions
NothingToStore(kind, batch) ==
    IF kind = "prices" THEN FrameEmpty(FrameOf(batch)) ELSE batch = <<>>

\* One statement of the executemany, on the table as the transaction sees it.
ExecuteOne(kind, table, rec) ==
    CASE kind = "prices" -> UpsertPrice(table, rec)
      [] kind = "news" -> InsertNews(table, rec).table
      [] kind = "insider" -> InsertInsider(table, rec).table

\* A connection in autocommit: each statement is committed as it executes.
ApplyAutocommit(kind, committed, work, rec) ==
    [committed |-> ExecuteOne(kind, work, rec),
     work |-> ExecuteOne(kind, work, rec)]

\* with engine.begin() as conn: a statement changes what the transaction
\* sees, and nothing that is committed.
ApplyInTransaction(kind, committed, work, rec) ==
    [committed |-> committed, work |-> ExecuteOne(kind, work, rec)]

\* A write that lands in every table, whatever the kind.
SetTableShared(kind, t) == prices' = t /\ news' = t /\ insider' = t

\* The write of a store call of the kind: into the kind's table and no other.
SetTable(kind, t) ==
    /\ prices' = IF kind = "prices" THEN t ELSE prices
    /\ news' = IF kind = "news" THEN t ELSE news
    /\ insider' = IF kind = "insider" THEN t ELSE insider

\* A store call whose input is empty returns 0 at its first statement.
StoreReturnsEarly ==
    /\ ~tx.active
    /\ \E symbol \in Symbols, batch \in StoreInputs(KindOf(entry)) :
          /\ NothingToStore(KindOf(entry), batch)
          /\ last' = [op |-> "store", kind |-> KindOf(entry),
                      symbol |-> symbol, records |-> <<>>, raised |-> FALSE,
                      count |-> 0]
    /\ UNCHANGED <<env, entry, provider, prices, news, insider, tx, seen, flight, process>>

\* engine.begin(): the store call has built its records and opens a transaction.
TxBegin ==
    /\ ~tx.active
    /\ \E symbol \in Symbols, batch \in StoreInputs(KindOf(entry)) :
          /\ ~NothingToStore(KindOf(entry), batch)
          /\ tx' = [active |-> TRUE, kind |-> KindOf(entry), symbol |-> symbol,
                    records |-> RecordsOf(KindOf(entry), symbol, batch),
                    done |-> 0, base |-> Table(KindOf(entry)),
                    work |-> Table(KindOf(entry))]
    /\ UNCHANGED <<env, entry, provider, prices, news, insider, last, seen, flight, process>>

\* conn.execute(text(...), records): the next record's statement.
TxExecute ==
    /\ tx.active
    /\ tx.done < Len(tx.records)
    /\ \E r \in {ApplyInTransaction(tx.kind, Table(tx.kind), tx.work,
                                    tx.records[tx.done + 1])} :
          /\ tx' = [tx EXCEPT !.done = @ + 1, !.work = r.work]
          /\ SetTable(tx.kind, r.committed)
    /\ UNCHANGED <<env, entry, provider, last, seen, flight, process>>

\* The block ends: the transaction commits and the call returns.
TxCommit ==
    /\ tx.active
    /\ tx.done = Len(tx.records)
    /\ SetTable(tx.kind, tx.work)
    /\ tx' = NoTx
    /\ last' = [op |-> "store", kind |-> tx.kind, symbol |-> tx.symbol,
                records |-> tx.records, raised |-> FALSE]
    /\ UNCHANGED <<env, entry, provider, seen, flight, process>>

\* A statement or the connection fails: the block rolls back and raises.
TxRollback ==
    /\ tx.active
    /\ tx' = NoTx
    /\ last' = [op |-> "store", kind |-> tx.kind, symbol |-> tx.symbol,
                records |-> tx.records, raised |-> TRUE]
    /\ UNCHANGED <<env, entry, provider, prices, news, insider, seen, flight, process>>

\* The rows a reader query returns from a table.
Query(kind, table, symbol) ==
    CASE kind = "prices" -> FetchPrices(table, symbol, NoNumber, NoNumber)
      [] kind = "news" -> FetchNews(table, symbol, DefaultLimit)
      [] kind = "insider" -> FetchInsider(table, symbol, DefaultLimit)

\* fetch_prices, fetch_news or fetch_insider on a connection of its own: the
\* query reads what is committed.
ReaderQuery ==
    /\ \E symbol \in Symbols :
          seen' = [kind |-> KindOf(entry), symbol |-> symbol,
                   rows |-> Query(KindOf(entry), Table(KindOf(entry)), symbol),
                   during |-> IF tx.active
                              THEN [active |-> TRUE, symbol |-> tx.symbol,
                                    done |-> tx.done,
                                    changes |-> tx.work # tx.base]
                              ELSE [active |-> FALSE]]
    /\ UNCHANGED <<env, entry, provider, prices, news, insider, last, tx, flight, process>>

InitTx ==
    /\ env = EnvOk
    /\ entry \in {"price_fetcher", "news_fetcher", "insider_fetcher"}
    /\ prices = {}
    /\ news = {}
    /\ insider = {}
    /\ last = NoCall
    /\ tx = NoTx
    /\ seen = NothingSeen
    /\ flight = NoFlight
    /\ main = "none"
    /\ started = FALSE
    /\ provider = NoProvider
    /\ jobs = NoJobs

SpecTx ==
    InitTx /\ [][StoreReturnsEarly \/ TxBegin \/ TxExecute \/ TxCommit
                    \/ TxRollback \/ ReaderQuery]_vars

-----------------------------------------------------------------------------
(* get_tracked_symbols of the three fetcher modules *)

Space == " "
Comma == ","

\* str.upper(), character by character.
UpperChar(c) ==
    CASE c = "a" -> "A" [] c = "p" -> "P" [] c = "l" -> "L" [] c = "m" -> "M"
      [] c = "s" -> "S" [] c = "f" -> "F" [] c = "t" -> "T" [] OTHER -> c
Upper(str) == [i \in 1..Len(str) |-> UpperChar(str[i])]

\* str.strip()
RECURSIVE LStrip(_)
LStrip(str) ==
    IF str # <<>> /\ Head(str) = Space THEN LStrip(Tail(str)) ELSE str
RECURSIVE RStrip(_)
RStrip(str) ==
    IF str # <<>> /\ str[Len(str)] = Space
    THEN RStrip(SubSeq(str, 1, Len(str) - 1))
    ELSE str
Strip(str) == RStrip(LStrip(str))

\* str.split(sep), with cur the piece being read.
RECURSIVE SplitFrom(_, _, _)
SplitFrom(str, sep, cur) ==
    IF str = <<>> THEN <<cur>>
    ELSE IF Head(str) = sep
    THEN <<cur>> \o SplitFrom(Tail(str), sep, <<>>)
    ELSE SplitFrom(Tail(str), sep, Append(cur, Head(str)))
Split(str, sep) == SplitFrom(str, sep, <<>>)

\* The pieces as they were split, neither trimmed nor uppercased nor
\* filtered.
KeepPieces(pieces) == pieces

\* [s.strip().upper() for s in pieces if s.strip()]
RECURSIVE StripUpperNonEmpty(_)
StripUpperNonEmpty(pieces) ==
    IF pieces = <<>> THEN <<>>
    ELSE IF Strip(Head(pieces)) # <<>>
    THEN <<Upper(Strip(Head(pieces)))>> \o StripUpperNonEmpty(Tail(pieces))
    ELSE StripUpperNonEmpty(Tail(pieces))

SPY == <<"S", "P", "Y">>
QQQ == <<"Q", "Q", "Q">>
TLT == <<"T", "L", "T">>
GOOGL == <<"G", "O", "O", "G", "L">>

DefaultSymbols(kind) ==
    CASE kind = "prices" -> <<SPY, QQQ, TLT>>
      [] kind = "news" -> <<SPY, QQQ, AAPL, MSFT>>
      [] kind = "insider" -> <<AAPL, MSFT, GOOGL>>

\* get_tracked_symbols() of the module of the kind, in environment e; an
\* unset TRACKED_SYMBOLS reads as the empty string.
GetTrackedSymbols(e, kind) ==
    IF e.TRACKED_SYMBOLS # <<>>
    THEN StripUpperNonEmpty(Split(e.TRACKED_SYMBOLS, Comma))
    ELSE DefaultSymbols(kind)

\* Values of TRACKED_SYMBOLS: unset, "aapl, MSFT" and ",".
TrackedSymbolsValues ==
    {<<>>,
     <<"a", "a", "p", "l", ",", " ", "M", "S", "F", "T">>,
     <<",">>}

-----------------------------------------------------------------------------
(* ingestion/scheduler.py *)

\* days_back of fetch_company_news and fetch_and_store_news.
DaysBack == 7

\* The days a request made on day now covers: period="1d" with
\* interval="1d" is the latest daily bar; company news are asked for from
\* now - days_back to now; insider transactions without dates.
PricePeriod(now) == {now}
NewsPeriod(now) == {t \in 1..now : t >= now - DaysBack}
InsiderPeriod(now) == 1..now

\* What the providers answer to one run while in state p = [now, ok]: each
\* publishes one record per symbol and day; every request of the run is
\* served, or every one fails.
PriceAnswer(symbols, p) ==
    [raises |-> ~p.ok, st |-> [s \in Range(symbols) |-> 1],
     index |-> PricePeriod(p.now), names |-> CapitalNames]
NewsAnswer(symbols, p) ==
    [s \in Range(symbols) |->
        IF p.ok
        THEN [kind |-> "ok", body |-> SeqOver(SetToSeq(NewsPeriod(p.now)), "s1")]
        ELSE [kind |-> "error", body |-> <<>>]]
InsiderAnswer(symbols, p) ==
    [s \in Range(symbols) |->
        IF p.ok
        THEN [kind |-> "ok", body |-> TxnsOver(SetToSeq(InsiderPeriod(p.now)), 10)]
        ELSE [kind |-> "error", body |-> <<>>]]

\* fetch_latest_prices(symbols): the same fetch with a 1-day period.
FetchLatestPrices(table, e, symbols, dl, failing) ==
    FetchAndStorePrices(table, e, symbols, dl, failing)

\* run_price_ingestion, run_news_ingestion, run_insider_ingestion while the
\* providers are in state p: the table afterwards, whether the run raised,
\* and whether it got an outcome map.
RunIngestion(kind, e, table, p) ==
    LET symbols == GetTrackedSymbols(e, kind)
        r == CASE kind = "prices" ->
                    FetchLatestPrices(table, e, symbols,
                                      PriceAnswer(symbols, p), {})
               [] kind = "news" ->
                    FetchAndStoreNews(table, e, symbols,
                                      NewsAnswer(symbols, p), {})
               [] kind = "insider" ->
                    FetchAndStoreInsider(table, e, symbols,
                                         InsiderAnswer(symbols, p), {})
    IN IF symbols = <<>>
       THEN [table |-> table, raised |-> FALSE, produced |-> FALSE,
             results |-> EmptyMap]
       ELSE [table |-> r.table, raised |-> r.raised, produced |-> ~r.raised,
             results |-> r.results]

\* main() with the scheduler started ahead of the first runs.
MainOrderSchedulerFirst == <<"scheduler", "prices", "news", "insider">>

\* The steps of main() before its sleep loop: the three runs, then
\* start_scheduler().
MainOrder == <<"prices", "news", "insider", "scheduler">>

MaxTicks == 2

\* add_job without max_instances: the scheduler's default, one running
\* instance per job.
MaxInstances == 1

IdleJob ==
    [instances |-> 0, cold |-> FALSE, produced |-> FALSE, ticks |-> 0,
     scheduled |-> FALSE]

InitSched ==
    /\ env \in [DATABASE_URL : BOOLEAN, FINNHUB_API_KEY : BOOLEAN,
                TRACKED_SYMBOLS : TrackedSymbolsValues]
    /\ entry = "scheduler"
    /\ prices = {}
    /\ news = {}
    /\ insider = {}
    /\ last = NoCall
    /\ tx = NoTx
    /\ seen = NothingSeen
    /\ flight = NoFlight
    /\ main = [pc |-> 1, state |-> "running"]
    /\ started = FALSE
    /\ provider = NoProvider
    /\ jobs = [k \in Kinds |-> IdleJob]

AfterStep ==
    IF main.pc = Len(MainOrder)
    THEN [pc |-> main.pc + 1, state |-> "sleeping"]
    ELSE [pc |-> main.pc + 1, state |-> "running"]

\* The runs of job kind in progress: the worker threads running it, and the
\* main thread when it is inside the kind's immediate run.
Executions(kind) ==
    jobs[kind].instances
    + (IF main.state = "in_run" /\ MainOrder[main.pc] = kind THEN 1 ELSE 0)

\* main() enters run_price_ingestion(), run_news_ingestion() or
\* run_insider_ingestion(): a plain call in the main thread.
MainRunBegin ==
    /\ main.state = "running"
    /\ main.pc <= Len(MainOrder)
    /\ MainOrder[main.pc] \in Kinds
    /\ main' = [main EXCEPT !.state = "in_run"]
    /\ UNCHANGED <<env, entry, provider, prices, news, insider, last, session,
                   started, jobs>>

\* The call returns, or raises: an exception of a run ends the process.
MainRunOnce ==
    /\ main.state = "in_run"
    /\ \E ok \in BOOLEAN :
        LET kind == MainOrder[main.pc]
        IN \E r \in {RunIngestion(kind, env, Table(kind),
                               [provider EXCEPT !.ok = ok])} :
            /\ SetTable(kind, r.table)
            /\ last' = [op |-> "run", kind |-> kind, trigger |-> "cold",
                        ok |-> ok, raised |-> r.raised, results |-> r.results]
            /\ IF r.raised
               THEN /\ main' = [main EXCEPT !.state = "crashed"]
                    /\ jobs' = jobs
               ELSE /\ main' = AfterStep
                    /\ jobs' = [jobs EXCEPT ![kind].cold = TRUE,
                                            ![kind].produced = r.produced]
    /\ UNCHANGED <<env, entry, provider, session, started>>

\* start_scheduler(): the three interval jobs are added and the scheduler starts.
MainStartScheduler ==
    /\ main.state = "running"
    /\ main.pc <= Len(MainOrder)
    /\ MainOrder[main.pc] = "scheduler"
    /\ started' = TRUE
    /\ jobs' = [k \in Kinds |-> [jobs[k] EXCEPT !.scheduled = TRUE]]
    /\ main' = AfterStep
    /\ UNCHANGED <<env, entry, provider, prices, news, insider, last, session>>

\* KeyboardInterrupt in the sleep loop: finally scheduler.shutdown(wait=False)
\* returns without waiting for the runs in progress, and main() returns.
MainInterrupt ==
    /\ main.state = "sleeping"
    /\ started' = FALSE
    /\ main' = [main EXCEPT !.state = "exited"]
    /\ UNCHANGED <<env, entry, provider, prices, news, insider, last, session,
                   jobs>>

\* KeyboardInterrupt before the try block of main(): no handler catches it
\* (the runs catch Exception only), the run in progress is abandoned with its
\* transaction rolled back, and the process ends.
MainInterruptCold ==
    /\ main.state \in {"running", "in_run"}
    /\ main' = [main EXCEPT !.state = "exited"]
    /\ UNCHANGED <<env, entry, provider, prices, news, insider, last, session,
                   started, jobs>>

\* A job that starts a run whatever is running already.
CanStartAlways(job) == TRUE

\* The scheduler submits a run unless the job has max_instances running.
CanStart(job) == job.instances < MaxInstances

\* A run whose failure removes the job.
AfterRunRemoveOnFailure(job, failed) ==
    [job EXCEPT !.instances = @ - 1,
                !.scheduled = IF failed THEN FALSE ELSE @]

\* The end of a run in a worker thread: the executor logs an exception of
\* the job function; the interval trigger keeps the job scheduled.
AfterRun(job, failed) == [job EXCEPT !.instances = @ - 1]

\* The interval of a job elapses while the scheduler runs: a worker thread
\* starts the run, or the run is skipped when an instance is still running.
Tick(kind) ==
    /\ started
    /\ jobs[kind].scheduled
    /\ LET launched == CanStart(jobs[kind])
       IN /\ jobs' = [jobs EXCEPT
                        ![kind].instances = IF launched THEN @ + 1 ELSE @,
                        ![kind].ticks = IF @ < MaxTicks THEN @ + 1 ELSE @]
          /\ last' = [op |-> "tick", kind |-> kind, launched |-> launched]
    /\ UNCHANGED <<env, entry, provider, prices, news, insider, session, main,
                   started>>

\* The run of a worker thread ends.
JobFinish(kind) ==
    /\ jobs[kind].instances > 0
    /\ \E ok \in BOOLEAN :
        \E r \in {RunIngestion(kind, env, Table(kind),
                               [provider EXCEPT !.ok = ok])} :
            /\ SetTable(kind, r.table)
            /\ last' = [op |-> "run", kind |-> kind, trigger |-> "interval",
                        ok |-> ok, raised |-> r.raised, results |-> r.results]
            /\ jobs' = [jobs EXCEPT
                          ![kind] = AfterRun(@, r.raised \/ ~ok)]
    /\ UNCHANGED <<env, entry, provider, session, main, started>>

SpecSched ==
    InitSched /\ [][\/ MainRunBegin \/ MainRunOnce \/ MainStartScheduler
                    \/ MainInterrupt \/ MainInterruptCold
                    \/ \E k \in Kinds : Tick(k)
                    \/ \E k \in Kinds : JobFinish(k)]_vars

-----------------------------------------------------------------------------
(* The interval-driven runs over the days *)

MaxNow == 9

\* The scheduler after a cold start on day 1 that stored nothing: every job
\* is scheduled and idle.  The jobs write different tables and share no
\* state, so a behaviour follows the runs of one job, named in last.
InitRetry ==
    /\ env = EnvOk
    /\ entry = "scheduler"
    /\ prices = {}
    /\ news = {}
    /\ insider = {}
    /\ last \in {[op |-> "follow", kind |-> k] : k \in Kinds}
    /\ tx = NoTx
    /\ seen = NothingSeen
    /\ flight = NoFlight
    /\ main = [pc |-> Len(MainOrder) + 1, state |-> "sleeping"]
    /\ started = TRUE
    /\ provider \in [now : {1}, ok : BOOLEAN, polled : {FALSE}]
    /\ jobs = [k \in Kinds |->
                 [IdleJob EXCEPT !.cold = TRUE, !.produced = TRUE,
                                 !.scheduled = TRUE]]

\* A day passes: the providers publish the day's records.  The intervals
\* are minutes long, so the followed job has completed a run during the day
\* and no run spans midnight.
NextDay ==
    /\ provider.now < MaxNow
    /\ provider.polled
    /\ jobs[last.kind].instances = 0
    /\ provider' = [provider EXCEPT !.now = @ + 1, !.polled = FALSE]
    /\ UNCHANGED <<env, entry, prices, news, insider, last, session, process>>

\* The providers' requests start failing, and stop failing.
ProviderFails ==
    /\ provider.ok
    /\ provider' = [provider EXCEPT !.ok = FALSE]
    /\ UNCHANGED <<env, entry, prices, news, insider, last, session, process>>

ProviderRecovers ==
    /\ ~provider.ok
    /\ provider' = [provider EXCEPT !.ok = TRUE]
    /\ UNCHANGED <<env, entry, prices, news, insider, last, session, process>>

\* A tick of the job the behaviour follows.
FollowedTick(kind) == last.kind = kind /\ Tick(kind)

\* The end of an interval-triggered run, against the providers as they are.
IntervalRun(kind) ==
    /\ last.kind = kind
    /\ jobs[kind].instances > 0
    /\ \E r \in {RunIngestion(kind, env, Table(kind), provider)} :
        /\ SetTable(kind, r.table)
        /\ last' = [op |-> "run", kind |-> kind, trigger |-> "interval",
                    ok |-> provider.ok, raised |-> r.raised,
                    results |-> r.results]
        /\ jobs' = [jobs EXCEPT ![kind] = AfterRun(@, r.raised \/ ~provider.ok)]
    /\ provider' = [provider EXCEPT !.polled = TRUE]
    /\ UNCHANGED <<env, entry, session, main, started>>

NextRetry ==
    \/ NextDay
    \/ ProviderFails
    \/ ProviderRecovers
    \/ \E k \in Kinds : FollowedTick(k)
    \/ \E k \in Kinds : IntervalRun(k)

\* The interval trigger fires every job again and again.
SpecRetry ==
    /\ InitRetry
    /\ [][NextRetry]_vars
    /\ \A k \in Kinds : WF_vars(FollowedTick(k))

-----------------------------------------------------------------------------
(* Claims about store_prices *)

\* The OHLCV values of a stored row, and those the provider holds.
RowBar(r) == [f \in Fields |-> r[f]]
BarOf(ver, t) == [f \in Fields |-> Val(f, ver, t)]
RowsAt(table, symbol, t) ==
    {r \in table : r.symbol = symbol /\ r.timestamp = t}

\* C1: after every store_prices call each (symbol, timestamp) has at most one
\* row; a key of a call that returned carries exactly that call's values, and
\* every other key keeps the rows it had, so a row always shows the values of
\* the most recent call that contained its key.
C1_PricesUpsert ==
    [][\A s \in Symbols, t \in Timestamps :
         LET after == RowsAt(prices', s, t)
         IN /\ Cardinality(after) <= 1
            /\ IF /\ ~last'.raised
                  /\ s = last'.symbol
                  /\ t \in last'.shape.index
               THEN \E r \in after : RowBar(r) = BarOf(last'.shape.ver, t)
               ELSE after = RowsAt(prices, s, t)]_vars

\* A call that returned over a key already stored with other values.
C1_Witness ==
    /\ last.op = "store_prices"
    /\ ~last.raised
    /\ \E r \in last.revised, q \in prices :
          /\ q.symbol = r.symbol
          /\ q.timestamp = r.timestamp
          /\ RowBar(q) # RowBar(r)

-----------------------------------------------------------------------------
(* Claims about one cycle of an orchestrator *)

IsCycle(l) ==
    l.op \in {"fetch_and_store_prices", "fetch_and_store_news",
              "fetch_and_store_insider"}

\* The configuration the cycle needs is present.
Configured(l) ==
    /\ env.DATABASE_URL
    /\ l.op # "fetch_and_store_prices" => env.FINNHUB_API_KEY

\* The provider holds records for symbol s in cycle l.
HasData(l, s) ==
    IF l.op = "fetch_and_store_prices"
    THEN l.dl.st[s] \in Versions
    ELSE l.resp[s].kind = "ok" /\ l.resp[s].body # <<>>

\* The provider fetch that serves symbol s throws in cycle l: the shared
\* download of the price job, the symbol's own request of the other two.
FetchThrows(l, s) ==
    IF l.op = "fetch_and_store_prices"
    THEN l.dl.raises
    ELSE l.resp[s].kind = "error"

\* The rows of symbol s in the table the cycle writes.
StoredFor(l, s) ==
    IF l.op = "fetch_and_store_prices" THEN RowsOf(prices, s)
    ELSE IF l.op = "fetch_and_store_news" THEN RowsOf(news, s)
    ELSE RowsOf(insider, s)

C4_EntryPerSymbol ==
    IsCycle(last) /\ Configured(last) =>
        /\ DOMAIN last.results = Range(last.symbols)
        /\ \A s \in Range(last.symbols) :
              (~HasData(last, s) \/ FetchThrows(last, s) \/ s \in last.failing)
              => last.results[s] = 0

\* C5 as claimed: a cycle never raises.
C5_NeverRaises == IsCycle(last) => ~last.raised

\* C5, amended: with DATABASE_URL set, a cycle raises nothing and returns a map
\* over requested symbols, whatever fails per symbol.
C5_NoRaiseWhenDbConfigured ==
    IsCycle(last) /\ env.DATABASE_URL =>
        /\ ~last.raised
        /\ DOMAIN last.results \subseteq Range(last.symbols)
        /\ \A s \in DOMAIN last.results : last.results[s] \in Nat

\* A cycle in which every symbol fails, in its fetch or in its store, and
\* which still returns.
C5_Witness ==
    /\ IsCycle(last)
    /\ env.DATABASE_URL
    /\ Len(last.symbols) = 2
    /\ \A s \in Range(last.symbols) :
          \/ FetchThrows(last, s)
          \/ HasData(last, s) /\ s \in last.failing
          \/ last.op # "fetch_and_store_prices" /\ ~env.FINNHUB_API_KEY
    /\ \E s \in Range(last.symbols) : HasData(last, s) /\ s \in last.failing
    /\ ~last.raised

\* C6: when the store write for X fails, the map records X as 0.
C6_StoreFailureIsZero ==
    IsCycle(last) /\ Configured(last) =>
        \A x \in Range(last.symbols) :
            (HasData(last, x) /\ ~FetchThrows(last, x) /\ x \in last.failing)
            => /\ x \in DOMAIN last.results
               /\ last.results[x] = 0

\* The multi-symbol price path was taken and reached its loop.
BulkCycle(l) ==
    /\ l.op = "fetch_and_store_prices"
    /\ env.DATABASE_URL
    /\ Len(l.symbols) > 1
    /\ ~l.dl.raises

\* C8: after the multi-symbol path stored symbol S, the row of S at each
\* timestamp of the response carries the values of S's own columns.
C8_BulkDecomposition ==
    BulkCycle(last) =>
        \A s \in DOMAIN last.results :
            last.results[s] > 0 =>
                \A t \in Timestamps :
                    /\ Cardinality(RowsAt(prices, s, t)) = 1
                    /\ \A r \in RowsAt(prices, s, t) :
                          RowBar(r) = BarOf(last.dl.st[s], t)

\* Two symbols with different values in their columns, both stored.
C8_Witness ==
    /\ BulkCycle(last)
    /\ last.symbols = <<AAPL, MSFT>>
    /\ last.dl.st[AAPL] = 1 /\ last.dl.st[MSFT] = 2
    /\ last.results = [s \in Symbols |-> MaxTs]

\* Symbol x of the shared response failed: its values do not convert or its
\* transaction failed.
BulkFailed(l, x) ==
    \/ l.dl.st[x] \in {NaN, Gappy}
    \/ l.dl.st[x] \in Versions /\ x \in l.failing

\* C9: in the multi-symbol path a failure of symbol X leaves every other
\* symbol of the response with its own entry, and stored when it does not fail
\* itself.
C9_BulkIsolation ==
    BulkCycle(last) =>
        \A x \in Range(last.symbols), y \in Range(last.symbols) :
            (x # y /\ BulkFailed(last, x) /\ last.dl.st[y] # Absent) =>
                /\ y \in DOMAIN last.results
                /\ ~BulkFailed(last, y) =>
                      /\ last.results[y] = MaxTs
                      /\ \A t \in Timestamps :
                            \E r \in RowsAt(prices, y, t) :
                                RowBar(r) = BarOf(last.dl.st[y], t)

\* The failing symbol is listed first, the other one is stored after it.
C9_Witness ==
    /\ BulkCycle(last)
    /\ BulkFailed(last, last.symbols[1])
    /\ last.failing = {last.symbols[1]}
    /\ {last.symbols[1], last.symbols[2]} \subseteq DOMAIN last.results
    /\ last.results[last.symbols[1]] = 0
    /\ last.results[last.symbols[2]] = MaxTs

-----------------------------------------------------------------------------
(* Claims about the store transaction *)

RECURSIVE ExecuteAll(_, _, _)
ExecuteAll(kind, table, records) ==
    IF records = <<>> THEN table
    ELSE ExecuteAll(kind, ExecuteOne(kind, table, Head(records)), Tail(records))

\* C7: the committed table changes only by a whole batch, at the commit of its
\* transaction, and a reader query that runs while a transaction is open
\* returns the rows as they were when the transaction began.
C7_AtomicBatch ==
    [][/\ Table(KindOf(entry))' # Table(KindOf(entry)) =>
            /\ tx.active /\ ~tx'.active /\ ~last'.raised
            /\ Table(KindOf(entry))' =
                  ExecuteAll(tx.kind, tx.base, tx.records)
       /\ (seen' # seen /\ tx.active) =>
            seen'.rows = Query(tx.kind, tx.base, seen'.symbol)]_vars

\* A reader ran between two statements of a batch that changes the table.
C7_Witness ==
    /\ seen.kind # "none"
    /\ seen.during.active
    /\ seen.during.done = 1
    /\ seen.during.symbol = seen.symbol
    /\ seen.during.changes
    /\ last.op = "store"
    /\ ~last.raised
    /\ last.symbol = seen.symbol
    /\ Len(Query(seen.kind, Table(seen.kind), seen.symbol)) > Len(seen.rows)

-----------------------------------------------------------------------------
(* Claims about the scheduler *)

\* C10 as claimed: once the scheduler is started or a job has had an interval
\* tick, the job has completed its immediate run and that run produced an
\* outcome map.
C10_ColdStartOutcome ==
    \A k \in Kinds :
        (started \/ jobs[k].ticks > 0) => jobs[k].cold /\ jobs[k].produced

\* C10, amended: once the scheduler is started or a job has had an interval
\* tick, the job has completed its immediate run, and that run produced an
\* outcome map if the job's symbol list is not empty.
C10_ColdStartBeforeTicks ==
    \A k \in Kinds :
        (started \/ jobs[k].ticks > 0) =>
            /\ jobs[k].cold
            /\ GetTrackedSymbols(env, k) # <<>> => jobs[k].produced

\* Every job has had its immediate run, with an outcome map, and one of them
\* is in its first interval-driven run.
C10_Witness ==
    /\ entry = "scheduler"
    /\ started
    /\ \A k \in Kinds : jobs[k].cold /\ jobs[k].produced
    /\ \E k \in Kinds : jobs[k].ticks = 1 /\ jobs[k].instances = 1

\* A run has just ended: the immediate run of the main thread, or the run
\* of a worker thread.
RunEnded ==
    \/ main.state = "in_run" /\ main'.state \in {"running", "sleeping", "crashed"}
    \/ \E k \in Kinds : jobs'[k].instances < jobs[k].instances

\* The run that ended failed: it raised, or every provider request failed.
RunFailed(l) == l.op = "run" /\ (l.raised \/ ~l.ok)

\* C11 as claimed: no failure of a run ends the process.
C11_NoFailureEndsProcess == main.state # "crashed"

\* C11, amended: with DATABASE_URL set, a failed run, immediate or
\* interval-triggered, every symbol failing included, leaves the process
\* alive, the scheduler as it was and every job scheduled as it was, and the
\* job free to run at its next tick.
C11_FailureKeepsJob ==
    [][(RunEnded /\ RunFailed(last') /\ env.DATABASE_URL) =>
          /\ ~last'.raised
          /\ main'.state # "crashed"
          /\ main'.state = "exited" => main.state = "exited"
          /\ started' = started
          /\ \A k \in Kinds : jobs'[k].scheduled = jobs[k].scheduled
          /\ CanStart(jobs'[last'.kind])]_vars

\* An interval-triggered run in which every provider request failed has
\* ended, and the scheduler runs with the job still scheduled.
C11_Witness ==
    /\ last.op = "run"
    /\ last.trigger = "interval"
    /\ ~last.ok
    /\ env.DATABASE_URL
    /\ GetTrackedSymbols(env, last.kind) # <<>>
    /\ started
    /\ jobs[last.kind].scheduled
    /\ jobs[last.kind].instances = 0

\* Job kind can begin a run now: as the next call of the main thread, or at
\* a tick of the running scheduler.
CanBegin(kind) ==
    \/ main.state = "running" /\ main.pc <= Len(MainOrder)
       /\ MainOrder[main.pc] = kind
    \/ started /\ jobs[kind].scheduled /\ CanStart(jobs[kind])

\* C12: while a run of one job kind is in progress in the live process, a
\* sibling kind with no run in progress can begin one.
C12_SiblingsNotBlocked ==
    main.state \notin {"crashed", "exited"} =>
        \A k \in Kinds, j \in Kinds :
            (k # j /\ Executions(k) > 0 /\ Executions(j) = 0) => CanBegin(j)

\* C13: at most one run of a job kind is in progress at any time: a tick
\* that finds the job running starts no second run, and the end of a run
\* leaves the job idle.
C13_OneRunPerKind ==
    /\ \A k \in Kinds : Executions(k) <= 1
    /\ (last.op = "tick" /\ ~last.launched) => jobs[last.kind].instances = 1
    /\ (last.op = "run" /\ last.trigger = "interval")
         => jobs[last.kind].instances = 0

\* A tick arrived while the job was running and was skipped.
C13_Witness ==
    /\ last.op = "tick"
    /\ ~last.launched
    /\ jobs[last.kind].instances = 1
    /\ started

\* C14: when the process has shut down on its signal, no run is left in
\* progress: the runs in flight were waited for.
C14_GracefulShutdown ==
    main.state = "exited" => \A k \in Kinds : jobs[k].instances = 0

-----------------------------------------------------------------------------
(* Claims about the runs over the days *)

\* The store holds the record of symbol s and day t of the job kind.
Held(kind, s, t) ==
    CASE kind = "prices" ->
            \E r \in prices : r.symbol = s /\ r.timestamp = t
      [] kind = "news" ->
            \E r \in news : r.symbol = s /\ r.timestamp = t
      [] kind = "insider" ->
            \E r \in insider : r.symbol = s /\ r.transaction_date = t

HeldForAll(kind, t) ==
    \A s \in Range(GetTrackedSymbols(env, kind)) : Held(kind, s, t)

\* Runs of the followed job keep starting and keep ending.
RunsKeepCompleting == []<>(last.op = "tick") /\ []<>(last.op = "run")

\* C15: for every job kind, if runs keep completing and the provider's
\* requests eventually stop failing, the record the provider published on
\* day 1 for each tracked symbol is eventually in the store.
C15_EventuallyStored ==
    (<>[](provider.ok) /\ RunsKeepCompleting) => <>HeldForAll(last.kind, 1)

\* C15 for the job whose request has no window: the insider transactions of
\* day 1 are eventually stored once the requests stop failing.
C15_InsiderEventuallyStored ==
    (last.kind = "insider" /\ <>[](provider.ok) /\ RunsKeepCompleting)
        => <>HeldForAll("insider", 1)

-----------------------------------------------------------------------------
(* Claims about what a cycle keeps *)

\* The keys of the records the provider returned for symbol s in cycle l:
\* the timestamps of its bars, of its news items, of its transactions.
ReturnedKeys(l, s) ==
    IF l.op = "fetch_and_store_prices"
    THEN IF l.dl.raises THEN {}
         ELSE {t \in l.dl.index :
                 /\ l.dl.st[s] \in Versions \cup {Gappy}
                 /\ Val("volume", l.dl.st[s], t) # NaN}
    ELSE IF l.resp[s].kind # "ok" THEN {}
    ELSE IF l.op = "fetch_and_store_news"
    THEN {l.resp[s].body[i].datetime : i \in 1..Len(l.resp[s].body)}
    ELSE {l.resp[s].body[i].transactionDate : i \in 1..Len(l.resp[s].body)}

RowsWithKey(l, s, t) ==
    IF l.op = "fetch_and_store_insider"
    THEN {r \in insider : r.symbol = s /\ r.transaction_date = t}
    ELSE {r \in StoredFor(l, s) : r.timestamp = t}

\* C16: after a cycle in which no database write failed for symbol S, every
\* key of the records the provider returned for S has exactly one row.
C16_NoRecordLost ==
    IsCycle(last) /\ Configured(last) =>
        \A s \in Range(last.symbols) :
            s \notin last.failing =>
                \A t \in ReturnedKeys(last, s) :
                    Cardinality(RowsWithKey(last, s, t)) = 1

\* C17: a cycle over some symbols that lacks DATABASE_URL, or lacks the
\* FINNHUB_API_KEY its job needs, ends in an error and returns no per-symbol
\* counts.
C17_ConfigErrorIsFatal ==
    IsCycle(last) /\ last.symbols # <<>> /\ ~Configured(last) =>
        /\ last.raised
        /\ last.results = EmptyMap

\* The part of C17 the code keeps: without DATABASE_URL a cycle over some
\* symbols ends in an error before any symbol is processed, and no
\* cycle that lacks its configuration writes or changes a row.
C17_MissingDbUrlIsFatal ==
    [][IsCycle(last') /\ last'.symbols # <<>> =>
          /\ ~env.DATABASE_URL => last'.raised /\ last'.results = EmptyMap
          /\ ~Configured(last') =>
                prices' = prices /\ news' = news /\ insider' = insider]_vars

-----------------------------------------------------------------------------
(* Claims about store_insider *)

C18_NamedInsiderDedup ==
    [][/\ \A r \in insider', q \in insider' :
             InsiderKey(r) = InsiderKey(q) /\ r.insider_name # NULL => r = q
       /\ \A r \in insider' \ insider :
             r.insider_name # NULL =>
                \A q \in insider : InsiderKey(q) # InsiderKey(r)
       /\ insider \subseteq insider']_vars

-----------------------------------------------------------------------------
(* Claims about fetch_company_news and fetch_insider_transactions *)

IsFinnhubCycle(l) ==
    l.op \in {"fetch_and_store_news", "fetch_and_store_insider"}

\* What the cycle's fetch for symbol s came to.
FetchOf(l, s) ==
    IF l.op = "fetch_and_store_news"
    THEN FetchCompanyNews(env, l.resp[s])
    ELSE FetchInsiderTransactions(env, l.resp[s])

\* The request failed, or its payload is not a list of items (an object with
\* a list of transactions).
BadResponse(l, s) == l.resp[s].kind \in {"error", "shape", "inner"}

\* C20 as claimed: in a cycle that reached its loop, no fetch raises; a fetch
\* whose request failed or whose payload has the wrong shape returns the empty
\* sequence, and the cycle records 0 for its symbol.
C20_FetchNeverRaises ==
    IsFinnhubCycle(last) /\ env.DATABASE_URL =>
        \A s \in Range(last.symbols) :
            /\ ~FetchOf(last, s).raised
            /\ BadResponse(last, s) =>
                  /\ FetchOf(last, s).items = <<>>
                  /\ last.results[s] = 0

\* C20, amended: with FINNHUB_API_KEY set no fetch raises; a fetch whose
\* request failed, or whose payload has another top level than expected,
\* returns the empty sequence; a payload with the expected top level is
\* returned as it came; in each of these cases the cycle records 0 for the
\* symbol unless the payload held well-formed records.
C20_NoRaiseWithKey ==
    IsFinnhubCycle(last) /\ env.DATABASE_URL /\ env.FINNHUB_API_KEY =>
        \A s \in Range(last.symbols) :
            /\ ~FetchOf(last, s).raised
            /\ last.resp[s].kind \in {"error", "shape"} =>
                  FetchOf(last, s).items = <<>>
            /\ last.resp[s].kind \in {"ok", "inner"} =>
                  FetchOf(last, s).items = last.resp[s].body
            /\ BadResponse(last, s) => last.results[s] = 0

\* A cycle over two symbols with the key set, one request failing and the
\* other answered by a payload of the wrong top level: both recorded as 0.
C20_Witness ==
    /\ IsFinnhubCycle(last)
    /\ env.DATABASE_URL
    /\ env.FINNHUB_API_KEY
    /\ Len(last.symbols) = 2
    /\ last.resp[last.symbols[1]].kind = "error"
    /\ last.resp[last.symbols[2]].kind = "shape"
    /\ ~last.raised
    /\ \A s \in Range(last.symbols) :
          s \in DOMAIN last.results /\ last.results[s] = 0

-----------------------------------------------------------------------------
(* Claims about the store calls' edge cases and counts *)

\* C21: no transaction is opened over an empty batch of records, and a store
\* call that returns with an empty input returns 0 without raising, with no
\* transaction opened and every table as it was.
C21_EmptyInputNoOp ==
    [][/\ (tx'.active /\ ~tx.active) => tx'.records # <<>>
       /\ (last' # last /\ last'.op = "store" /\ last'.records = <<>>) =>
             /\ ~last'.raised
             /\ last'.count = 0
             /\ tx' = tx
             /\ prices' = prices /\ news' = news /\ insider' = insider]_vars

\* A store call with an empty input returned while the table held rows.
C21_Witness ==
    /\ last.op = "store"
    /\ last.records = <<>>
    /\ last.count = 0
    /\ ~tx.active
    /\ Table(last.kind) # {}

C22_CountIsRowsInserted ==
    [][last'.op = "store_insider" /\ ~last'.raised =>
          /\ last'.count = Cardinality(insider' \ insider)
          /\ (\A i \in 1..Len(last'.items) :
                 \E q \in insider :
                    InsiderConflict(q, InsiderRecord(last'.symbol,
                                                     last'.items[i])))
             => last'.count = 0]_vars

-----------------------------------------------------------------------------
(* api/app.py: the query endpoints, with store calls in between *)

\* limit of get_prices when the request names none.
PriceLimitDefault == 100

\* df.tail(n): the last n rows.
TailRows(seq, n) ==
    IF Len(seq) <= n THEN seq ELSE SubSeq(seq, Len(seq) - n + 1, Len(seq))

\* GET /prices/{symbol}: the status and the body of the response; dbDown
\* tells whether the connection to the store fails.
GetPrices(table, symbol, start_date, end_date, limit, dbDown) ==
    IF dbDown THEN [status |-> 500, body |-> <<>>]
    ELSE LET df == FetchPrices(table, Upper(symbol), start_date, end_date)
         IN IF df = <<>>
            THEN [status |-> 404, body |-> <<>>]
            ELSE [status |-> 200, body |-> TailRows(df, limit)]

\* GET /news/{symbol}
GetNews(table, symbol, limit, dbDown) ==
    IF dbDown THEN [status |-> 500, body |-> <<>>]
    ELSE [status |-> 200, body |-> FetchNews(table, Upper(symbol), limit)]

\* GET /insider/{symbol}
GetInsider(table, symbol, limit, dbDown) ==
    IF dbDown THEN [status |-> 500, body |-> <<>>]
    ELSE [status |-> 200, body |-> FetchInsider(table, Upper(symbol), limit)]

\* The symbols asked for: stored ones, one in lower case, one never stored.
QuerySymbols == Symbols \cup {<<"a", "a", "p", "l">>, TLT}
QueryBounds == Timestamps \cup {NoNumber}

\* One request to the endpoint of the kind the process serves.
ApiRequest ==
    \E symbol \in QuerySymbols, dbDown \in BOOLEAN :
        \/ /\ KindOf(entry) = "prices"
           /\ \E start_date \in QueryBounds, end_date \in QueryBounds,
                 limit \in {1, PriceLimitDefault} :
                 \E r \in {GetPrices(prices, symbol, start_date, end_date,
                                      limit, dbDown)} :
                    last' = [op |-> "get_prices", symbol |-> symbol,
                             start_date |-> start_date, end_date |-> end_date,
                             limit |-> limit, dbDown |-> dbDown,
                             status |-> r.status, body |-> r.body]
           /\ UNCHANGED <<env, entry, provider, prices, news, insider, session, process>>
        \/ /\ KindOf(entry) = "news"
           /\ \E limit \in {1, DefaultLimit} :
                 \E r \in {GetNews(news, symbol, limit, dbDown)} :
                    last' = [op |-> "get_news", symbol |-> symbol,
                             limit |-> limit, dbDown |-> dbDown,
                             status |-> r.status, body |-> r.body]
           /\ UNCHANGED <<env, entry, provider, prices, news, insider, session, process>>
        \/ /\ KindOf(entry) = "insider"
           /\ \E limit \in {1, DefaultLimit} :
                 \E r \in {GetInsider(insider, symbol, limit, dbDown)} :
                    last' = [op |-> "get_insider", symbol |-> symbol,
                             limit |-> limit, dbDown |-> dbDown,
                             status |-> r.status, body |-> r.body]
           /\ UNCHANGED <<env, entry, provider, prices, news, insider, session, process>>

\* A store call of the ingestion side commits between two requests.
ApiIngest ==
    /\ \E symbol \in Symbols, batch \in TxBatches(KindOf(entry)) :
          /\ SetTable(KindOf(entry),
                      ExecuteAll(KindOf(entry), Table(KindOf(entry)),
                                 RecordsOf(KindOf(entry), symbol, batch)))
          /\ last' = [op |-> "store", kind |-> KindOf(entry), symbol |-> symbol]
    /\ UNCHANGED <<env, entry, provider, session, process>>

InitApi ==
    /\ env = EnvOk
    /\ entry \in {"api_prices", "api_news", "api_insider"}
    /\ prices = {}
    /\ news = {}
    /\ insider = {}
    /\ last = NoCall
    /\ tx = NoTx
    /\ seen = NothingSeen
    /\ flight = NoFlight
    /\ main = "none"
    /\ started = FALSE
    /\ provider = NoProvider
    /\ jobs = NoJobs

SpecApi == InitApi /\ [][ApiRequest \/ ApiIngest]_vars

-----------------------------------------------------------------------------
(* Claims about the query endpoints *)

IsQuery(l) == l.op \in {"get_prices", "get_news", "get_insider"}

\* The rows stored for the symbol a request names.
StoredForQuery(l) == RowsOf(Table(KindOf(entry)), Upper(l.symbol))

\* C23: a request answers 404 when the store holds no row for its symbol
\* and can be reached, 5xx when the store cannot be reached, and never
\* answers 200 with an empty body for a symbol without rows.
C23_NotFoundVersusFailure ==
    IsQuery(last) =>
        /\ last.dbDown => last.status = 500
        /\ (~last.dbDown /\ StoredForQuery(last) = {}) => last.status = 404
        /\ ~(last.status = 200 /\ last.body = <<>> /\ StoredForQuery(last) = {})

\* The part of C23 that holds for the three endpoints: a store that cannot
\* be reached answers 500, and the price endpoint answers 404 exactly when
\* the query returns no bar.
C23_PricesNotFound ==
    IsQuery(last) =>
        /\ last.dbDown <=> last.status = 500
        /\ (last.op = "get_prices" /\ ~last.dbDown) =>
              (last.status = 404 <=> last.body = <<>>)

\* The stored bars of the symbol of request l with lo <= timestamp, and with
\* timestamp < hi or, when closed, timestamp <= hi; a bound of NoNumber is
\* no bound.
BarsWithin(l, closed) ==
    {r \in RowsOf(prices, Upper(l.symbol)) :
        /\ l.start_date # NoNumber => r.timestamp >= l.start_date
        /\ l.end_date # NoNumber =>
              IF closed THEN r.timestamp <= l.end_date
              ELSE r.timestamp < l.end_date}

Ascending(body) ==
    \A i \in 1..Len(body), j \in 1..Len(body) :
        i < j => body[i].timestamp < body[j].timestamp

\* C24: a price request that answers 200 under the default limit returns
\* exactly the stored bars of its symbol with start <= timestamp < end, in
\* ascending order of timestamp.
C24_HalfOpenRange ==
    (last.op = "get_prices" /\ last.status = 200
        /\ last.limit = PriceLimitDefault) =>
        /\ Range(last.body) = BarsWithin(last, FALSE)
        /\ Ascending(last.body)

\* The part of C24 that holds: the bars returned are the last limit of the
\* stored bars with start <= timestamp <= end in ascending order, and a
\* request changes no table.
C24_ClosedRange ==
    [][IsQuery(last') =>
          /\ prices' = prices /\ news' = news /\ insider' = insider
          /\ (last'.op = "get_prices" /\ last'.status = 200) =>
                /\ Ascending(last'.body)
                /\ Range(last'.body) \subseteq BarsWithin(last', TRUE)
                /\ Len(last'.body) =
                      IF Cardinality(BarsWithin(last', TRUE)) < last'.limit
                      THEN Cardinality(BarsWithin(last', TRUE))
                      ELSE last'.limit
                /\ \A r \in BarsWithin(last', TRUE) \ Range(last'.body) :
                      \A i \in 1..Len(last'.body) :
                          r.timestamp < last'.body[i].timestamp]_vars

-----------------------------------------------------------------------------
(* Claims about get_tracked_symbols *)

\* A symbol as get_tracked_symbols hands it on: non-empty, without a space at
\* either end, in upper case.
WellFormedSymbol(x) ==
    /\ x # <<>>
    /\ Head(x) # Space
    /\ x[Len(x)] # Space
    /\ Upper(x) = x

\* The number of comma-separated entries of str that hold anything but
\* spaces.
RECURSIVE EntryCount(_, _)
EntryCount(str, open) ==
    IF str = <<>> THEN (IF open THEN 1 ELSE 0)
    ELSE IF Head(str) = Comma
    THEN (IF open THEN 1 ELSE 0) + EntryCount(Tail(str), FALSE)
    ELSE EntryCount(Tail(str), open \/ Head(str) # Space)

\* What C25 says of the list of every job kind, but for its last clause:
\* the defaults when TRACKED_SYMBOLS is unset, else one well-formed symbol per
\* entry that holds anything.
TrackedListsAsConfigured ==
    \A k \in Kinds :
        LET symbols == GetTrackedSymbols(env, k)
        IN IF env.TRACKED_SYMBOLS = <<>>
           THEN symbols = DefaultSymbols(k)
           ELSE /\ \A i \in 1..Len(symbols) : WellFormedSymbol(symbols[i])
                /\ Len(symbols) = EntryCount(env.TRACKED_SYMBOLS, FALSE)

\* C25 as claimed: the lists are as configured, and no job kind has an
\* empty list to run over.
C25_NeverEmptyList ==
    /\ TrackedListsAsConfigured
    /\ \A k \in Kinds : GetTrackedSymbols(env, k) # <<>>

\* C25, amended: the lists are as configured; a run that returns has
\* outcomes for symbols of its list only (for each of them in a news or
\* insider run), and a run over an empty list (TRACKED_SYMBOLS set with no
\* entry that holds anything) returns without outcomes and without raising.
C25_ListsAsConfigured ==
    /\ TrackedListsAsConfigured
    /\ (last.op = "run" /\ ~last.raised) =>
          /\ DOMAIN last.results
                \subseteq Range(GetTrackedSymbols(env, last.kind))
          /\ last.kind # "prices" =>
                DOMAIN last.results = Range(GetTrackedSymbols(env, last.kind))
    /\ (last.op = "run" /\ GetTrackedSymbols(env, last.kind) = <<>>) =>
          ~last.raised /\ last.results = EmptyMap

\* A run over the list configured as "aapl, MSFT" returned its map.
C25_Witness ==
    /\ env.TRACKED_SYMBOLS # <<>>
    /\ last.op = "run"
    /\ ~last.raised
    /\ DOMAIN last.results = {AAPL, MSFT}

-----------------------------------------------------------------------------
(* One run of a fetch orchestrator, request by request *)

CycleOp(kind) ==
    CASE kind = "prices" -> "fetch_and_store_prices"
      [] kind = "news" -> "fetch_and_store_news"
      [] kind = "insider" -> "fetch_and_store_insider"

ResponsesOf(kind) == IF kind = "news" THEN NewsResponses ELSE InsiderResponses

\* fetch_company_news(symbol) or fetch_insider_transactions(symbol)
FetchItems(kind, e, resp) ==
    IF kind = "news" THEN FetchCompanyNews(e, resp)
    ELSE FetchInsiderTransactions(e, resp)

\* store_news(engine, symbol, items) or store_insider(engine, symbol, items)
StoreItems(kind, table, symbol, items, dbFail) ==
    IF kind = "news" THEN StoreNews(table, symbol, items, dbFail)
    ELSE StoreInsider(table, symbol, items, dbFail)

\* The orchestrator is called with a list of symbols: the engine is made and
\* results starts empty.
RunStart ==
    /\ ~flight.active
    /\ \E symbols \in SymbolLists \ {<<>>} :
          flight' = [active |-> TRUE, symbols |-> symbols, i |-> 1,
                     phase |-> "fetch", inflight |-> {}, batch |-> <<>>,
                     fetched |-> {}, attempts |-> <<>>, results |-> EmptyMap]
    /\ UNCHANGED <<env, entry, provider, prices, news, insider, last, tx, seen,
                   process>>

\* The next provider request leaves: yf.download with every ticker of the
\* list and threads=True in the price job, the request for the loop's symbol
\* in the other two.
RequestBegin ==
    /\ flight.active
    /\ flight.phase = "fetch"
    /\ flight.inflight = {}
    /\ flight.i <= Len(flight.symbols)
    /\ flight' = [flight EXCEPT !.inflight =
                     IF KindOf(entry) = "prices" THEN Range(flight.symbols)
                     ELSE {flight.symbols[flight.i]}]
    /\ UNCHANGED <<env, entry, provider, prices, news, insider, last, tx, seen,
                   process>>

\* yf.download returns or raises, and the price job stores what it got.
DownloadEnd ==
    /\ flight.active
    /\ flight.inflight # {}
    /\ KindOf(entry) = "prices"
    /\ \E dl \in Downloads(flight.symbols),
          failing \in SUBSET Range(flight.symbols) :
          \E r \in {FetchAndStorePrices(prices, env, flight.symbols, dl,
                                        failing)} :
             /\ prices' = r.table
             /\ flight' = [flight EXCEPT !.inflight = {},
                                         !.i = Len(flight.symbols) + 1,
                                         !.fetched = Range(flight.symbols),
                                         !.results = r.results]
    /\ UNCHANGED <<env, entry, provider, news, insider, last, tx, seen, process>>

\* news_items = fetch_company_news(symbol), transactions =
\* fetch_insider_transactions(symbol): the request of the loop's symbol ends.
RequestEnd ==
    /\ flight.active
    /\ flight.inflight # {}
    /\ KindOf(entry) # "prices"
    /\ \E resp \in ResponsesOf(KindOf(entry)) :
          flight' = [flight EXCEPT
                       !.inflight = {},
                       !.phase = "store",
                       !.batch = FetchItems(KindOf(entry), env, resp).items,
                       !.fetched = @ \cup {flight.symbols[flight.i]}]
    /\ UNCHANGED <<env, entry, provider, prices, news, insider, last, tx, seen,
                   process>>

\* A loop body that stores the batch it holds whether or not it is empty.
StoresBatchAlways(batch) == TRUE

\* if news_items: / if transactions:
StoresBatch(batch) == batch # <<>>

\* The rest of the loop body: the batch is stored if there is one, the
\* symbol's outcome is set, and the loop moves on.
StoreStep ==
    /\ flight.active
    /\ flight.phase = "store"
    /\ LET symbol == flight.symbols[flight.i]
       IN IF StoresBatch(flight.batch)
          THEN \E dbFail \in BOOLEAN :
                 \E r \in {StoreItems(KindOf(entry), Table(KindOf(entry)),
                                       symbol, flight.batch, dbFail)} :
                    /\ SetTable(KindOf(entry), r.table)
                    /\ flight' = [flight EXCEPT
                                    !.phase = "fetch",
                                    !.i = @ + 1,
                                    !.attempts =
                                       Append(@, [symbol |-> symbol,
                                                  items |-> flight.batch]),
                                    !.results =
                                       Put(@, symbol,
                                           IF r.raised THEN 0 ELSE r.count)]
          ELSE /\ UNCHANGED <<prices, news, insider>>
               /\ flight' = [flight EXCEPT !.phase = "fetch", !.i = @ + 1,
                                           !.results = Put(@, symbol, 0)]
    /\ UNCHANGED <<env, entry, provider, last, tx, seen, process>>

\* return results
RunReturn ==
    /\ flight.active
    /\ flight.phase = "fetch"
    /\ flight.inflight = {}
    /\ flight.i > Len(flight.symbols)
    /\ last' = [op |-> CycleOp(KindOf(entry)), symbols |-> flight.symbols,
                raised |-> FALSE, results |-> flight.results,
                attempts |-> flight.attempts]
    /\ flight' = NoFlight
    /\ UNCHANGED <<env, entry, provider, prices, news, insider, tx, seen, process>>

InitRun ==
    /\ env \in [DATABASE_URL : {TRUE}, FINNHUB_API_KEY : BOOLEAN,
                TRACKED_SYMBOLS : {<<>>}]
    /\ entry \in {"price_fetcher", "news_fetcher", "insider_fetcher"}
    /\ prices = {}
    /\ news = {}
    /\ insider = {}
    /\ last = NoCall
    /\ tx = NoTx
    /\ seen = NothingSeen
    /\ flight = NoFlight
    /\ main = "none"
    /\ started = FALSE
    /\ provider = NoProvider
    /\ jobs = NoJobs

SpecRun ==
    InitRun /\ [][RunStart \/ RequestBegin \/ DownloadEnd \/ RequestEnd
                     \/ StoreStep \/ RunReturn]_vars

-----------------------------------------------------------------------------
(* Claims about one run, request by request *)

\* The sizes a worker pool could be configured with.
MaxWorkers == 2
PoolBounds == 1..MaxWorkers

\* C26: whatever bound the worker pool is configured with, the provider
\* fetches of a run that are in flight are no more than the bound.
C26_WithinPoolBound ==
    flight.active =>
        \A bound \in PoolBounds : Cardinality(flight.inflight) <= bound

\* What the runs do instead: a news or insider run has at most one request in
\* flight, a price run has none or the download of every symbol of its list.
C26_OneRequestAtATime ==
    flight.active =>
        IF KindOf(entry) = "prices"
        THEN flight.inflight \in {{}, Range(flight.symbols)}
        ELSE Cardinality(flight.inflight) <= 1

-----------------------------------------------------------------------------
(* Claims about the jobs' tables *)

\* C27: whatever runs are in progress, a step changes a table only as the
\* end of a run of the table's own job kind, and no step changes two tables.
C27_DisjointTables ==
    [][/\ \A k \in Kinds :
             Table(k)' # Table(k) => last'.op = "run" /\ last'.kind = k
       /\ Cardinality({k \in Kinds : Table(k)' # Table(k)}) <= 1]_vars

\* The three jobs have stored rows, and runs of two kinds are in progress
\* together.
C27_Witness ==
    /\ prices # {}
    /\ news # {}
    /\ insider # {}
    /\ \E j \in Kinds, k \in Kinds :
          j # k /\ jobs[j].instances > 0 /\ jobs[k].instances > 0

\* A stored row without the id the store gave it.
WithoutId(r) == [f \in DOMAIN r \ {"id"} |-> r[f]]

\* C28: a step changes the news or insider table only as the store of the
\* batch that the fetch of the loop's symbol returned in this run, a batch
\* that is not empty, and the rows it adds are records of that batch; a run
\* starts with no batch and no store attempt of an earlier run; the prices
\* table changes only as the run's download returns, in rows of the run's
\* symbols.
C28_StoreAfterOwnFetch ==
    [][/\ \A k \in {"news", "insider"} :
             Table(k)' # Table(k) =>
                /\ flight.active
                /\ flight.phase = "store"
                /\ flight.symbols[flight.i] \in flight.fetched
                /\ flight.batch # <<>>
                /\ \A r \in Table(k)' \ Table(k) :
                      \E j \in 1..Len(flight.batch) :
                         WithoutId(r) =
                            RecordsOf(k, flight.symbols[flight.i],
                                      flight.batch)[j]
       /\ (flight.active /\ flight'.active
             /\ flight'.attempts # flight.attempts) =>
                /\ flight.batch # <<>>
                /\ flight.symbols[flight.i] \in flight.fetched
                /\ flight'.attempts =
                      Append(flight.attempts,
                             [symbol |-> flight.symbols[flight.i],
                              items |-> flight.batch])
       /\ (~flight.active /\ flight'.active) =>
                /\ flight'.batch = <<>>
                /\ flight'.attempts = <<>>
                /\ flight'.fetched = {}
       /\ prices' # prices =>
                /\ flight.active
                /\ flight.inflight = Range(flight.symbols)
                /\ \A r \in (prices' \ prices) \cup (prices \ prices') :
                      r.symbol \in Range(flight.symbols)]_vars

\* A run over two symbols returned after a run that had stored rows: the
\* fetch of one symbol returned nothing and no store was attempted for it,
\* the batch of the other was stored.
C28_Witness ==
    /\ IsFinnhubCycle(last)
    /\ Len(last.symbols) = 2
    /\ Len(last.attempts) = 1
    /\ last.attempts[1].symbol = last.symbols[2]
    /\ last.results[last.symbols[1]] = 0
    /\ last.results[last.symbols[2]] = 0
    /\ RowsOf(Table(KindOf(entry)), last.symbols[2]) # {}
    /\ ~flight.active

-----------------------------------------------------------------------------
(* Price frames whose columns are spelled in lower case, Capitalised or in
   upper case, stored directly and through fetch_and_store_prices *)

Spellings == {LowerNames, CapitalNames, UpperNames}

SpelledShapes ==
    {[index |-> ix, names |-> n, ver |-> v] :
        ix \in Windows \ {{}}, n \in Spellings, v \in Versions}

SpelledDownloads(symbols) ==
    [raises : {FALSE}, st : [Range(symbols) -> Versions \cup {Absent}],
     index : {Timestamps}, names : Spellings]

StoreSpelled ==
    /\ entry = "client"
    /\ \E symbol \in Symbols, shape \in SpelledShapes, dbFail \in BOOLEAN :
        \E r \in {StorePrices(prices, symbol, FrameOf(shape), dbFail)} :
           /\ prices' = r.table
           /\ last' = [op |-> "store_prices", symbol |-> symbol, shape |-> shape,
                       dbFail |-> dbFail, raised |-> r.raised, count |-> r.count]
           /\ UNCHANGED <<env, entry, provider, news, insider, session, process>>

FetchSpelled ==
    /\ entry = "price_fetcher"
    /\ \E symbols \in SymbolLists \ {<<>>} :
        \E dl \in SpelledDownloads(symbols), failing \in SUBSET Range(symbols) :
          \E r \in {FetchAndStorePrices(prices, env, symbols, dl, failing)} :
            /\ prices' = r.table
            /\ last' = [op |-> "fetch_and_store_prices", symbols |-> symbols,
                        dl |-> dl, failing |-> failing,
                        raised |-> r.raised, results |-> r.results]
            /\ UNCHANGED <<env, entry, provider, news, insider, session, process>>

InitColumns ==
    /\ env = EnvOk
    /\ entry \in {"client", "price_fetcher"}
    /\ prices = {}
    /\ news = {}
    /\ insider = {}
    /\ last = NoCall
    /\ tx = NoTx
    /\ seen = NothingSeen
    /\ flight = NoFlight
    /\ main = "none"
    /\ started = FALSE
    /\ provider = NoProvider
    /\ jobs = NoJobs

SpecColumns == InitColumns /\ [][StoreSpelled \/ FetchSpelled]_vars

\* The bars of frame or download values ver over index are stored for symbol s
\* with the provider's open, high, low, close and volume.
StoredAsProvided(table, s, index, ver) ==
    \A t \in index : \E r \in RowsAt(table, s, t) : RowBar(r) = BarOf(ver, t)

\* C29: whatever the spelling of the column names, a store_prices call that
\* returned leaves every bar of its frame stored with the frame's values, and
\* a fetch_and_store_prices run leaves every bar of every symbol the provider
\* has data for, and whose store did not fail, stored with the provider's
\* values, for one symbol and for several.
C29_AnyLetterCase ==
    [][/\ (last'.op = "store_prices" /\ ~last'.raised) =>
            StoredAsProvided(prices', last'.symbol, last'.shape.index,
                             last'.shape.ver)
       /\ last'.op = "fetch_and_store_prices" =>
            \A s \in Range(last'.symbols) :
               (last'.dl.st[s] \in Versions /\ s \notin last'.failing) =>
                  StoredAsProvided(prices', s, last'.dl.index,
                                   last'.dl.st[s])]_vars

\* The spellings the code reads: store_prices reads the lower-case and the
\* Capitalised name, the single-symbol path lower-cases every name first, the
\* multi-symbol path reads the Capitalised name only.
C29_SpellingsRead ==
    [][/\ (/\ last'.op = "store_prices"
           /\ ~last'.raised
           /\ last'.shape.names \in {LowerNames, CapitalNames}) =>
            StoredAsProvided(prices', last'.symbol, last'.shape.index,
                             last'.shape.ver)
       /\ (/\ last'.op = "fetch_and_store_prices"
           /\ (Len(last'.symbols) = 1 \/ last'.dl.names = CapitalNames)) =>
            \A s \in Range(last'.symbols) :
               (last'.dl.st[s] \in Versions /\ s \notin last'.failing) =>
                  StoredAsProvided(prices', s, last'.dl.index,
                                   last'.dl.st[s])]_vars

-----------------------------------------------------------------------------
(* fetch_and_store_prices over one symbol and over a list holding it *)

\* The download of symbol s alone when the provider holds what dl describes.
AloneDownload(dl, s) == [dl EXCEPT !.st = [x \in {s} |-> dl.st[s]]]

\* fetch_and_store_prices([s]) against table with the provider data and the
\* database outcome of the run l.
RunAlone(table, l, s) ==
    FetchAndStorePrices(table, env, <<s>>, AloneDownload(l.dl, s),
                        l.failing \cap {s})

\* The outcome entry of s in a results map: none, or the count.
EntryOf(results, s) ==
    IF s \in DOMAIN results THEN <<results[s]>> ELSE <<>>

SameAsAlone(table, tableAfter, l, s) ==
    \E alone \in {RunAlone(table, l, s)} :
       /\ RowsOf(tableAfter, s) = RowsOf(alone.table, s)
       /\ EntryOf(l.results, s) = EntryOf(alone.results, s)
       /\ l.raised = alone.raised

\* C30: a fetch_and_store_prices run over several symbols leaves, for each of
\* them, the rows and reports the outcome entry that fetch_and_store_prices
\* over that symbol alone leaves and reports from the same store, the same
\* provider data and the same database outcome.
C30_AloneOrWithOthers ==
    [][(last'.op = "fetch_and_store_prices" /\ Len(last'.symbols) > 1) =>
          \A s \in Range(last'.symbols) :
             SameAsAlone(prices, prices', last', s)]_vars

\* The two paths agree for a symbol whose bars the provider has in full and
\* whose store succeeds, and for a symbol the response does not cover.
C30_SameWhenStored ==
    [][(last'.op = "fetch_and_store_prices" /\ Len(last'.symbols) > 1) =>
          \A s \in Range(last'.symbols) :
             (\/ last'.dl.st[s] \in Versions /\ s \notin last'.failing
              \/ last'.dl.st[s] = Absent
              \/ last'.dl.raises
              \/ last'.raised) =>
                SameAsAlone(prices, prices', last', s)]_vars

\* The paths differ only in the entry, never in the rows, when the database
\* fails the store of a symbol whose bars the provider has in full.
C30_FailureDiffersInEntry ==
    [][(/\ last'.op = "fetch_and_store_prices"
        /\ Len(last'.symbols) > 1
        /\ ~last'.raised /\ ~last'.dl.raises) =>
          \A s \in Range(last'.symbols) :
             (last'.dl.st[s] \in Versions /\ s \in last'.failing) =>
                \E alone \in {RunAlone(prices, last', s)} :
                   /\ RowsOf(prices', s) = RowsOf(alone.table, s)
                   /\ EntryOf(last'.results, s) = <<0>>
                   /\ EntryOf(alone.results, s) = <<>>]_vars

-----------------------------------------------------------------------------
(* Claims about the rows that stay *)

PriceKeys(table) == {<<r.symbol, r.timestamp>> : r \in table}
NewsKeys(table) == {NewsKey(r) : r \in table}
InsiderKeys(table) == {InsiderKey(r) : r \in table}

\* C31: no step removes a key from a table: the (symbol, timestamp) keys of
\* prices, the (symbol, timestamp, headline) keys of news and the keys of
\* insider_transactions present before a step are present after it, and no
\* news or insider row is removed.
C31_KeysNeverShrink ==
    [][/\ PriceKeys(prices) \subseteq PriceKeys(prices')
       /\ NewsKeys(news) \subseteq NewsKeys(news')
       /\ InsiderKeys(insider) \subseteq InsiderKeys(insider')
       /\ news \subseteq news'
       /\ insider \subseteq insider']_vars

\* A run over two symbols has ended in which the store of the first symbol
\* failed and the bars of the second were stored, with every key of both
\* symbols in the table: the first symbol's keys stayed from an earlier run.
C31_Witness ==
    /\ last.op = "fetch_and_store_prices"
    /\ Len(last.symbols) = 2
    /\ last.failing = {last.symbols[1]}
    /\ last.symbols[2] \in DOMAIN last.results
    /\ last.results[last.symbols[2]] > 0
    /\ \A s \in Range(last.symbols), t \in Timestamps :
           <<s, t>> \in PriceKeys(prices)

====
